---- MODULE Spec2Model ----
(***************************************************************************)
(* A model of lunchscraper: the dish classification engine                 *)
(* (lunchscraper/dish_classifier.py), the two menu scrapers                *)
(* (iss_scraper.py, kvartersmenyn_scraper.py) from the fetched data on,    *)
(* and the menu display of the command line (cli.py).                      *)
(*                                                                         *)
(* A text (a Python str) is a sequence of one-character strings, so that   *)
(* lower(), strip(), startswith() and the substring test "k in s" are      *)
(* computed character by character, as Python computes them.               *)
(* Python's None is the value None below.                                  *)
(***************************************************************************)
EXTENDS Integers, Sequences, FiniteSets, TLC

VARIABLES
    \* one call of DishClassifier.classify_dish
    dish, previous_category, result, pcDish,
    \* one call of DishClassifier.classify_dishes (the loop over dishes)
    dishes, idx, categorized, current_marker_category, pc,
    \* one call of DishClassifier.merge_categories_for_display
    merge_arg, merge_result, pcMerge,
    \* one call of cli.display_all_daily_menus or display_all_weekly_menus
    week, all_menus, vegetarian_only, meat_only, echoed, pcCli,
    \* ISSMenuScraper: the API response and one call on it
    api_data, iss_day_of_week, iss_returned, pcIss,
    \* KvartersmenynsMenuScraper: the page, the loop of _parse_weekly_menu over
    \* the children of the menu div, and one call on its result
    soup, element_idx, current_day, current_dishes, weekly_menu,
    kv_day_of_week, kv_returned, pcKv,
    \* the calls of classify_dishes before this one: the marker context the last
    \* of them ended with
    marker_of_earlier_call,
    \* one call of KvartersmenynsMenuScraper._parse_dishes: its argument, its
    \* lists combined_dishes and cleaned_dishes, and what it returns
    kv_lines, kv_combined, kv_cleaned, kv_parsed, pcParse,
    \* ISSMenuScraper: its session state, the requests it has sent with their
    \* outcome, and what the last call of _establish_session or
    \* _fetch_menu_from_api handed back
    _session_established, _auth_token, requests_sent, session_returned, pcSession

varsDish == <<dish, previous_category, result, pcDish>>
varsDishes == <<dishes, idx, categorized, current_marker_category, pc>>
varsMerge == <<merge_arg, merge_result, pcMerge>>
varsCli == <<week, all_menus, vegetarian_only, meat_only, echoed, pcCli>>
varsIss == <<api_data, iss_day_of_week, iss_returned, pcIss>>
varsKv ==
    <<soup, element_idx, current_day, current_dishes, weekly_menu,
      kv_day_of_week, kv_returned, pcKv>>
varsCalls == <<marker_of_earlier_call>>
varsParse == <<kv_lines, kv_combined, kv_cleaned, kv_parsed, pcParse>>
varsSession == <<_session_established, _auth_token, requests_sent, session_returned, pcSession>>
vars == <<varsDish, varsDishes, varsMerge, varsCli, varsIss, varsKv, varsCalls, varsParse, varsSession>>

\* the variables a call leaves alone: those of the other calls
exceptDish == <<varsDishes, varsMerge, varsCli, varsIss, varsKv, varsCalls, varsParse, varsSession>>
exceptDishes == <<varsDish, varsMerge, varsCli, varsIss, varsKv, varsCalls, varsParse, varsSession>>
exceptMerge == <<varsDish, varsDishes, varsCli, varsIss, varsKv, varsCalls, varsParse, varsSession>>
exceptCli == <<varsDish, varsDishes, varsMerge, varsIss, varsKv, varsCalls, varsParse, varsSession>>
exceptIss == <<varsDish, varsDishes, varsMerge, varsCli, varsKv, varsCalls, varsParse, varsSession>>
exceptKv == <<varsDish, varsDishes, varsMerge, varsCli, varsIss, varsCalls, varsParse, varsSession>>
\* the variables that calls of classify_dishes in a row leave alone
exceptCalls == <<varsDish, varsMerge, varsCli, varsIss, varsKv, varsParse, varsSession>>
exceptParse == <<varsDish, varsDishes, varsMerge, varsCli, varsIss, varsKv, varsCalls, varsSession>>
exceptSession == <<varsDish, varsDishes, varsMerge, varsCli, varsIss, varsKv, varsCalls, varsParse>>

None == "None"

Categories == {"vegetarian", "fish", "meat"}

(***************************************************************************)
(* Python str operations                                                   *)
(***************************************************************************)

\* str.lower() on one character: the upper-case letters of the Swedish
\* alphabet (and the accented E of the keyword lists) map to lower case.
LowerOf ==
       ("A" :> "a") @@ ("B" :> "b") @@ ("C" :> "c") @@ ("D" :> "d") @@ ("E" :> "e") @@ ("F" :> "f") @@
       ("G" :> "g") @@ ("H" :> "h") @@ ("I" :> "i") @@ ("J" :> "j") @@ ("K" :> "k") @@ ("L" :> "l") @@
       ("M" :> "m") @@ ("N" :> "n") @@ ("O" :> "o") @@ ("P" :> "p") @@ ("Q" :> "q") @@ ("R" :> "r") @@
       ("S" :> "s") @@ ("T" :> "t") @@ ("U" :> "u") @@ ("V" :> "v") @@ ("W" :> "w") @@ ("X" :> "x") @@
       ("Y" :> "y") @@ ("Z" :> "z") @@ ("Å" :> "å") @@ ("Ä" :> "ä") @@ ("Ö" :> "ö") @@ ("É" :> "é")

LowerChar(c) == IF c \in DOMAIN LowerOf THEN LowerOf[c] ELSE c

Lower(s) == [i \in 1..Len(s) |-> LowerChar(s[i])]

\* the characters str.strip() removes at both ends
Whitespace == {" ", "\t", "\n"}

Strip(s) ==
    LET keep == {i \in 1..Len(s) : s[i] \notin Whitespace}
    IN  IF keep = {} THEN <<>>
        ELSE LET first == CHOOSE i \in keep : \A j \in keep : i <= j
                 last == CHOOSE i \in keep : \A j \in keep : j <= i
             IN  SubSeq(s, first, last)

\* s.startswith(prefix)
StartsWith(s, prefix) ==
    /\ Len(prefix) <= Len(s)
    /\ \A j \in 1..Len(prefix) : s[j] = prefix[j]

\* sub in s
Contains(sub, s) ==
    \E i \in 0..(Len(s) - Len(sub)) : \A j \in 1..Len(sub) : s[i + j] = sub[j]

\* any(k in s for k in keywords)
AnyIn(keywords, s) == \E n \in 1..Len(keywords) : Contains(keywords[n], s)

(***************************************************************************)
(* The class-level tables of DishClassifier                                *)
(***************************************************************************)

\* a dict: iteration is in insertion order, vegetarian, fish, meat
CATEGORY_MARKERS ==
    <<
      [category |-> "vegetarian", markers |-> <<
          <<"v","e","g","e","t","a","r","i","s","k","t",":">>,   \* vegetariskt:
          <<"v","e","g","e","t","a","r","i","s","k","t">>,   \* vegetariskt
          <<"v","e","g","o",":">>,   \* vego:
          <<"v","e","g","o">>,   \* vego
          <<"v","e","g","a","n","s","k",":">>,   \* vegansk:
          <<"v","e","g","a","n","s","k">>,   \* vegansk
          <<"v","e","g","a","n",":">>,   \* vegan:
          <<"v","e","g","a","n">>,   \* vegan
          <<"v","e","g","e","t","a","r","i","s","k",":">>,   \* vegetarisk:
          <<"v","e","g","e","t","a","r","i","s","k">>,   \* vegetarisk
          <<"g","r","ö","n","t",":">>,   \* grönt:
          <<"g","r","ö","n","t">>,   \* grönt
          <<"v","ä","x","t","b","a","s","e","r","a","t",":">>,   \* växtbaserat:
          <<"v","ä","x","t","b","a","s","e","r","a","t">>,   \* växtbaserat
          <<"v","e","g","a","n","s","k","t"," ","a","l","t","e","r","n","a","t","i","v",":">>,   \* veganskt alternativ:
          <<"v","e","g","a","n","s","k","t"," ","a","l","t","e","r","n","a","t","i","v">>   \* veganskt alternativ
      >>],
      [category |-> "fish", markers |-> <<
          <<"f","i","s","k",":">>,   \* fisk:
          <<"f","i","s","k">>,   \* fisk
          <<"f","i","s","k","r","ä","t","t",":">>,   \* fiskrätt:
          <<"f","i","s","k","r","ä","t","t">>,   \* fiskrätt
          <<"d","a","g","e","n","s"," ","f","i","s","k",":">>,   \* dagens fisk:
          <<"d","a","g","e","n","s"," ","f","i","s","k">>,   \* dagens fisk
          <<"s","k","a","l","d","j","u","r",":">>,   \* skaldjur:
          <<"s","k","a","l","d","j","u","r">>   \* skaldjur
      >>],
      [category |-> "meat", markers |-> <<
          <<"k","ö","t","t",":">>,   \* kött:
          <<"k","ö","t","t">>,   \* kött
          <<"k","ö","t","t","r","ä","t","t",":">>,   \* kötträtt:
          <<"k","ö","t","t","r","ä","t","t">>,   \* kötträtt
          <<"d","a","g","e","n","s"," ","k","ö","t","t",":">>,   \* dagens kött:
          <<"d","a","g","e","n","s"," ","k","ö","t","t">>,   \* dagens kött
          <<"f","å","g","e","l",":">>,   \* fågel:
          <<"f","å","g","e","l">>   \* fågel
      >>]
    >>

FISH_KEYWORDS ==
    <<
      <<"f","i","s","k">>,   \* fisk
      <<"l","a","x">>,   \* lax
      <<"t","o","r","s","k">>,   \* torsk
      <<"s","e","j">>,   \* sej
      <<"r","ä","k","o","r">>,   \* räkor
      <<"s","c","a","m","p","i">>,   \* scampi
      <<"h","u","m","m","e","r">>,   \* hummer
      <<"s","k","a","l","d","j","u","r">>,   \* skaldjur
      <<"t","o","n","f","i","s","k">>,   \* tonfisk
      <<"s","i","l","l">>,   \* sill
      <<"s","t","r","ö","m","m","i","n","g">>,   \* strömming
      <<"g","ö","s">>,   \* gös
      <<"a","b","b","o","r","r","e">>,   \* abborre
      <<"s","a","r","d","i","n","e","r">>,   \* sardiner
      <<"m","a","k","r","i","l","l">>,   \* makrill
      <<"h","ä","l","l","e","f","l","u","n","d","r","a">>,   \* hälleflundra
      <<"r","ö","d","s","p","ä","t","t","a">>,   \* rödspätta
      <<"p","i","g","g","v","a","r">>,   \* piggvar
      <<"h","a","v","s","k","r","ä","f","t","a">>,   \* havskräfta
      <<"k","u","m","m","e","l">>,   \* kummel
      <<"f","i","s","h">>   \* fish
    >>

MEAT_KEYWORDS ==
    <<
      <<"k","ö","t","t">>,   \* kött
      <<"k","y","c","k","l","i","n","g">>,   \* kyckling
      <<"f","l","ä","s","k">>,   \* fläsk
      <<"b","i","f","f">>,   \* biff
      <<"o","x","f","i","l","é">>,   \* oxfilé
      <<"k","a","l","v">>,   \* kalv
      <<"l","a","m","m">>,   \* lamm
      <<"ä","l","g">>,   \* älg
      <<"r","e","n">>,   \* ren
      <<"a","n","k","b","r","ö","s","t">>,   \* ankbröst
      <<"f","å","g","e","l">>,   \* fågel
      <<"e","n","t","r","e","c","o","t","e">>,   \* entrecote
      <<"r","y","g","g","b","i","f","f">>,   \* ryggbiff
      <<"s","i","d","f","l","ä","s","k">>,   \* sidfläsk
      <<"b","a","c","o","n">>,   \* bacon
      <<"c","h","o","r","i","z","o">>,   \* chorizo
      <<"k","o","r","v">>,   \* korv
      <<"k","ö","t","t","b","u","l","l","a","r">>,   \* köttbullar
      <<"h","a","m","b","u","r","g","a","r","e">>,   \* hamburgare
      <<"s","c","h","n","i","t","z","e","l">>,   \* schnitzel
      <<"f","r","i","k","a","d","e","l","l","e","r">>,   \* frikadeller
      <<"p","u","l","l","e","d"," ","p","o","r","k">>,   \* pulled pork
      <<"r","e","v","b","e","n","s","s","p","j","ä","l","l">>,   \* revbensspjäll
      <<"k","o","r","v","s","t","r","o","g","a","n","o","f","f">>,   \* korvstroganoff
      <<"w","a","l","l","e","n","b","e","r","g","a","r","e">>,   \* wallenbergare
      <<"p","y","t","t"," ","i"," ","p","a","n","n","a">>,   \* pytt i panna
      <<"r","a","g","g","m","u","n","k"," ","m","e","d"," ","f","l","ä","s","k">>,   \* raggmunk med fläsk
      <<"c","o","q"," ","a","u"," ","v","i","n">>,   \* coq au vin
      <<"p","o","r","c","h","e","t","t","a">>,   \* porchetta
      <<"f","ä","r","s","b","i","f","f">>,   \* färsbiff
      <<"k","y","c","k","l","i","n","g","l","å","r">>,   \* kycklinglår
      <<"n","ö","t","k","ö","t","t">>,   \* nötkött
      <<"f","l","ä","s","k","k","a","r","r","é">>   \* fläskkarré
    >>

VEGETARIAN_KEYWORDS ==
    <<
      <<"v","e","g","o">>,   \* vego
      <<"v","e","g","a","n">>,   \* vegan
      <<"v","e","g","e","t","a","r","i","s","k">>,   \* vegetarisk
      <<"h","a","l","l","o","u","m","i">>,   \* halloumi
      <<"f","a","l","a","f","e","l">>,   \* falafel
      <<"t","e","m","p","e","h">>,   \* tempeh
      <<"t","o","f","u">>,   \* tofu
      <<"v","e","g","a","n","s","k">>,   \* vegansk
      <<"v","e","g","e","t","a","r","i","s","k","t">>,   \* vegetariskt
      <<"b","ö","n","o","r">>,   \* bönor
      <<"l","i","n","s","e","r">>,   \* linser
      <<"q","u","i","n","o","a">>,   \* quinoa
      <<"s","e","i","t","a","n">>,   \* seitan
      <<"s","v","a","m","p","g","r","y","t","a">>,   \* svampgryta
      <<"s","v","a","m","p","s","å","s">>,   \* svampsås
      <<"s","v","a","m","p","s","o","p","p","a">>,   \* svampsoppa
      <<"r","o","t","s","e","l","l","e","r","i">>,   \* rotselleri
      <<"s","e","l","l","e","r","i">>,   \* selleri
      <<"k","i","k","ä","r","t","o","r">>,   \* kikärtor
      <<"g","r","ö","n","s","a","k","e","r">>,   \* grönsaker
      <<"v","e","g","o","b","u","r","g","a","r","e">>,   \* vegoburgare
      <<"v","e","g","o","k","ö","t","t","b","u","l","l","a","r">>,   \* vegoköttbullar
      <<"c","h","i","l","i"," ","m","e","d"," ","b","ö","n","o","r">>,   \* chili med bönor
      <<"b","ö","f","f"," ","a","l","a"," ","l","i","n","d","s","t","r","ö","m">>,   \* böff ala lindström
      <<"g","n","o","c","c","h","i">>,   \* gnocchi
      <<"z","u","c","c","h","i","n","i">>,   \* zucchini
      <<"a","u","b","e","r","g","i","n","e">>,   \* aubergine
      <<"m","o","u","s","s","a","k","a"," ","p","å"," ","v","e","g","o","f","ä","r","s">>,   \* moussaka på vegofärs
      <<"l","å","n","g","b","a","k","a","d"," ","r","o","t","s","e","l","l","e","r","i">>,   \* långbakad rotselleri
      <<"s","k","o","g","s","s","v","a","m","p">>,   \* skogssvamp
      <<"t","e","m","p","u","r","a"," ","s","v","a","m","p">>,   \* tempura svamp
      <<"t","o","r","t","e","l","l","i","n","i">>,   \* tortellini
      <<"r","i","c","o","t","t","a">>,   \* ricotta
      <<"s","p","e","n","a","t">>   \* spenat
    >>

MEAT_DISHES ==
    <<
      <<"ä","r","t","s","o","p","p","a">>,   \* ärtsoppa
      <<"p","a","n","n","k","a","k","a">>   \* pannkaka
    >>

SKIP_LABELS ==
    <<
      <<"e","x","t","r","a">>,   \* extra
      <<"ö","v","r","i","g">>,   \* övrig
      <<"ö","v","r","i","g","t">>,   \* övrigt
      <<"d","e","s","s","e","r","t">>,   \* dessert
      <<"t","i","l","l","b","e","h","ö","r">>   \* tillbehör
    >>

explicit_veg_markers ==
    <<
      <<"v","e","g","a","n">>,   \* vegan
      <<"v","e","g","a","n","s","k">>,   \* vegansk
      <<"v","e","g","e","t","a","r","i","s","k">>,   \* vegetarisk
      <<"v","e","g","e","t","a","r","i","s","k","t">>,   \* vegetariskt
      <<"v","e","g","o">>,   \* vego
      <<"m","o","r","o","t">>,   \* morot
      <<"m","o","r","ö","t","t","e","r">>   \* morötter
    >>

\* the "looks like a dish" words of the default-to-meat rule
dish_words ==
    <<
      <<"s","e","r","v","e","r","a","s">>,   \* "serveras"
      <<" ","m","e","d"," ">>,   \* " med "
      <<"t","i","l","l">>,   \* "till"
      <<"s","a","m","t">>,   \* "samt"
      <<"o","c","h">>   \* "och"
    >>

(***************************************************************************)
(* classify_dish                                                           *)
(***************************************************************************)

\* MarkerMatches without the startswith test
MarkerMatches_ExactOnly(dish_lower, marker) ==
    \/ dish_lower = marker
    \/ dish_lower = marker \o <<":">>

\* the two tests of the marker loop for one marker
MarkerMatches(dish_lower, marker) ==
    \/ dish_lower = marker
    \/ dish_lower = marker \o <<":">>
    \/ StartsWith(dish_lower, marker \o <<":">>)

\* the nested loop over CATEGORY_MARKERS: the category of the first entry
\* one of whose markers matches, None when the loop falls through
MarkerCategory(dish_lower) ==
    LET hits == {c \in 1..Len(CATEGORY_MARKERS) :
                    \E m \in 1..Len(CATEGORY_MARKERS[c].markers) :
                        MarkerMatches(dish_lower, CATEGORY_MARKERS[c].markers[m])}
    IN  IF hits = {} THEN None
        ELSE CATEGORY_MARKERS[CHOOSE c \in hits : \A d \in hits : c <= d].category

\* f'marker:{category}'
MarkerResult(category) == "marker:" \o category

\* ClassifyContent with the special meat dishes and the meat keywords tested
\* before the explicit vegetarian markers
ClassifyContent_MeatBeforeExplicit(dish_lower, previous_category_) ==
    IF AnyIn(MEAT_DISHES, dish_lower) THEN "meat"
    ELSE IF AnyIn(MEAT_KEYWORDS, dish_lower) THEN "meat"
    ELSE IF AnyIn(explicit_veg_markers, dish_lower) THEN "vegetarian"
    ELSE IF AnyIn(FISH_KEYWORDS, dish_lower) THEN "fish"
    ELSE IF AnyIn(VEGETARIAN_KEYWORDS, dish_lower) THEN "vegetarian"
    ELSE IF previous_category_ # None THEN previous_category_
    ELSE IF AnyIn(dish_words, dish_lower) THEN "meat"
    ELSE None

\* ClassifyContent with the fish keywords tested before the meat keywords
ClassifyContent_FishBeforeMeat(dish_lower, previous_category_) ==
    IF AnyIn(explicit_veg_markers, dish_lower) THEN "vegetarian"
    ELSE IF AnyIn(MEAT_DISHES, dish_lower) THEN "meat"
    ELSE IF AnyIn(FISH_KEYWORDS, dish_lower) THEN "fish"
    ELSE IF AnyIn(MEAT_KEYWORDS, dish_lower) THEN "meat"
    ELSE IF AnyIn(VEGETARIAN_KEYWORDS, dish_lower) THEN "vegetarian"
    ELSE IF previous_category_ # None THEN previous_category_
    ELSE IF AnyIn(dish_words, dish_lower) THEN "meat"
    ELSE None

\* ClassifyContent with previous_category tested before the keyword lists
ClassifyContent_PreviousFirst(dish_lower, previous_category_) ==
    IF AnyIn(explicit_veg_markers, dish_lower) THEN "vegetarian"
    ELSE IF previous_category_ # None THEN previous_category_
    ELSE IF AnyIn(MEAT_DISHES, dish_lower) THEN "meat"
    ELSE IF AnyIn(MEAT_KEYWORDS, dish_lower) THEN "meat"
    ELSE IF AnyIn(FISH_KEYWORDS, dish_lower) THEN "fish"
    ELSE IF AnyIn(VEGETARIAN_KEYWORDS, dish_lower) THEN "vegetarian"
    ELSE IF AnyIn(dish_words, dish_lower) THEN "meat"
    ELSE None

\* the precedence chain after the marker loop
ClassifyContent(dish_lower, previous_category_) ==
    IF AnyIn(explicit_veg_markers, dish_lower) THEN "vegetarian"
    ELSE IF AnyIn(MEAT_DISHES, dish_lower) THEN "meat"
    ELSE IF AnyIn(MEAT_KEYWORDS, dish_lower) THEN "meat"
    ELSE IF AnyIn(FISH_KEYWORDS, dish_lower) THEN "fish"
    ELSE IF AnyIn(VEGETARIAN_KEYWORDS, dish_lower) THEN "vegetarian"
    ELSE IF previous_category_ # None THEN previous_category_
    ELSE IF AnyIn(dish_words, dish_lower) THEN "meat"
    ELSE None

classify_dish(dish_, previous_category_) ==
    LET dish_lower == Strip(Lower(dish_))
        marker == MarkerCategory(dish_lower)
    IN  IF marker # None THEN MarkerResult(marker)
        ELSE ClassifyContent(dish_lower, previous_category_)

(***************************************************************************)
(* Inputs of classify_dish: texts put together from a few fragments        *)
(***************************************************************************)

MaxWords == 3

Words ==
    {
      <<"V","e","g","o">>,   \* "Vego"
      <<"F","i","s","k">>,   \* "Fisk"
      <<"K","ö","t","t">>,   \* "Kött"
      <<":">>,   \* ":"
      <<" ">>,   \* " "
      <<"k","ö","t","t","b","u","l","l","a","r">>,   \* "köttbullar"
      <<"Ä","r","t","s","o","p","p","a">>,   \* "Ärtsoppa"
      <<"g","r","ö","n","s","a","k","e","r">>,   \* "grönsaker"
      <<" ","m","e","d"," ">>,   \* " med "
      <<"G","r","i","l","l","a","d">>   \* "Grillad"
    }

RECURSIVE TextsOf(_)
TextsOf(n) ==
    IF n = 0 THEN {<<>>}
    ELSE LET shorter == TextsOf(n - 1)
         IN  shorter \cup {t \o w : t \in shorter, w \in Words}

Texts == TextsOf(MaxWords)

PreviousCategories == Categories \cup {None}

InitDish ==
    /\ dish \in Texts
    /\ previous_category \in PreviousCategories
    /\ result = None
    /\ pcDish = "call"

IdleDish ==
    /\ dish = <<>>
    /\ previous_category = None
    /\ result = None
    /\ pcDish = "idle"

IdleDishes ==
    /\ dishes = <<>>
    /\ idx = 0
    /\ categorized = [vegetarian |-> <<>>, meat |-> <<>>, fish |-> <<>>]
    /\ current_marker_category = None
    /\ pc = "idle"

IdleMerge ==
    /\ merge_arg = <<>>
    /\ merge_result = <<>>
    /\ pcMerge = "idle"

IdleCli ==
    /\ week = FALSE
    /\ all_menus = <<>>
    /\ vegetarian_only = FALSE
    /\ meat_only = FALSE
    /\ echoed = <<>>
    /\ pcCli = "idle"

IdleIss ==
    /\ api_data = <<>>
    /\ iss_day_of_week = None
    /\ iss_returned = <<>>
    /\ pcIss = "idle"

IdleKv ==
    /\ soup = <<>>
    /\ element_idx = 0
    /\ current_day = None
    /\ current_dishes = <<>>
    /\ weekly_menu = <<>>
    /\ kv_day_of_week = None
    /\ kv_returned = <<>>
    /\ pcKv = "idle"

IdleCalls ==
    marker_of_earlier_call = None

IdleParse ==
    /\ kv_lines = <<>>
    /\ kv_combined = <<>>
    /\ kv_cleaned = <<>>
    /\ kv_parsed = <<>>
    /\ pcParse = "idle"

IdleSession ==
    /\ _session_established = FALSE
    /\ _auth_token = None
    /\ requests_sent = <<>>
    /\ session_returned = <<>>
    /\ pcSession = "idle"

IdleScrapers == IdleCli /\ IdleIss /\ IdleKv

\* the call classify_dish(dish, previous_category) returns
ClassifyDish ==
    /\ pcDish = "call"
    /\ result' = classify_dish(dish, previous_category)
    /\ pcDish' = "done"
    /\ UNCHANGED <<dish, previous_category, exceptDish>>

SpecDishInit == InitDish /\ IdleDishes /\ IdleMerge /\ IdleScrapers /\ IdleCalls /\ IdleParse /\ IdleSession

SpecDishNext == ClassifyDish

SpecDish == SpecDishInit /\ [][SpecDishNext]_vars

(***************************************************************************)
(* classify_dishes: the loop over the candidates of one day                *)
(***************************************************************************)

MaxDishes == 3

\* len(dish.strip()) < 3
MinDishLength == 3

\* len(dish_lower) < 15
MaxLabelLength == 15

\* the candidates a day's list is made of
DishTexts ==
    {
      <<>>,   \* ""
      <<" ","a","b"," ">>,   \* " ab "
      <<"E","x","t","r","a">>,   \* "Extra"
      <<"V","e","g","e","t","a","r","i","s","k","t",":">>,   \* "Vegetariskt:"
      <<"F","i","s","k",":"," ","L","a","x">>,   \* "Fisk: Lax"
      <<"D","a","g","e","n","s"," ","r","ä","t","t">>,   \* "Dagens rätt"
      <<" ","B","i","f","f"," ","m","e","d"," ","l","ö","k"," ">>,   \* " Biff med lök "
      <<"Ä","r","t","s","o","p","p","a">>,   \* "Ärtsoppa"
      <<"H","a","l","l","o","u","m","i">>,   \* "Halloumi"
      <<"D","e","s","s","e","r","t",":"," ","g","l","a","s","s"," ","o","c","h"," ","b","ä","r">>   \* "Dessert: glass och bär"
    }

RECURSIVE ListsOf(_)
ListsOf(n) ==
    IF n = 0 THEN {<<>>}
    ELSE LET shorter == ListsOf(n - 1)
         IN  shorter \cup {Append(l, t) : l \in shorter, t \in DishTexts}

DishLists == ListsOf(MaxDishes)

\* TooShort without the length test: only the empty candidate is skipped
TooShort_EmptyOnly(dish_) == dish_ = <<>>

\* not dish or len(dish.strip()) < 3
TooShort(dish_) == dish_ = <<>> \/ Len(Strip(dish_)) < MinDishLength

\* BareLabel without the length test: every text holding a label is skipped
BareLabel_NoLengthTest(dish_) == AnyIn(SKIP_LABELS, Strip(Lower(dish_)))

\* a label of SKIP_LABELS in a text of fewer than 15 characters
BareLabel(dish_) ==
    LET dish_lower == Strip(Lower(dish_))
    IN  AnyIn(SKIP_LABELS, dish_lower) /\ Len(dish_lower) < MaxLabelLength

\* IsMarkerResult taking no result for a marker
IsMarkerResult_Never(category) == FALSE

\* category and category.startswith('marker:')
IsMarkerResult(category) == category \in {MarkerResult(c) : c \in Categories}

\* category.split(':')[1]
MarkerOf(category) == CHOOSE c \in Categories : category = MarkerResult(c)

\* MarkerAfterDish dropping the marker context after every dish
MarkerAfterDish_AlwaysDrop(category, dish_, marker) == None

\* MarkerAfterDish keeping the marker context after every dish
MarkerAfterDish_NeverDrop(category, dish_, marker) == marker

\* the marker context after a dish of the given category: dropped when the
\* category differs from it and the dish holds a keyword of one of the lists
MarkerAfterDish(category, dish_, marker) ==
    IF /\ category # None
       /\ marker # None
       /\ category # marker
       /\ AnyIn(FISH_KEYWORDS \o MEAT_KEYWORDS \o VEGETARIAN_KEYWORDS, Lower(dish_))
    THEN None
    ELSE marker

\* Appended without the default branch: a dish with no category is dropped
Appended_NoDefault(lists, category, dish_) ==
    IF category # None /\ category \in DOMAIN lists
    THEN [lists EXCEPT ![category] = Append(@, dish_)]
    ELSE lists

\* Appended filing a dish with no category under a key of its own
Appended_OwnKey(lists, category, dish_) ==
    IF category \in DOMAIN lists
    THEN [lists EXCEPT ![category] = Append(@, dish_)]
    ELSE (category :> <<dish_>>) @@ lists

\* Appended putting the dish in front of its list
Appended_InFront(lists, category, dish_) ==
    IF category # None /\ category \in DOMAIN lists
    THEN [lists EXCEPT ![category] = <<dish_>> \o @]
    ELSE IF category = None
    THEN [lists EXCEPT !["meat"] = <<dish_>> \o @]
    ELSE lists

\* Appended with the dish trimmed before it is appended
Appended_Trimmed(lists, category, dish_) ==
    IF category # None /\ category \in DOMAIN lists
    THEN [lists EXCEPT ![category] = Append(@, Strip(dish_))]
    ELSE IF category = None
    THEN [lists EXCEPT !["meat"] = Append(@, Strip(dish_))]
    ELSE lists

\* the lists after the dish has been appended: to its category's list, to meat
\* when it has no category
Appended(lists, category, dish_) ==
    IF category # None /\ category \in DOMAIN lists
    THEN [lists EXCEPT ![category] = Append(@, dish_)]
    ELSE IF category = None
    THEN [lists EXCEPT !["meat"] = Append(@, dish_)]
    ELSE lists

InitDishes ==
    /\ dishes \in DishLists
    /\ idx = 1
    /\ categorized = [vegetarian |-> <<>>, meat |-> <<>>, fish |-> <<>>]
    /\ current_marker_category = None
    /\ pc = "loop"

\* the loop has a next dish
InLoop == pc = "loop" /\ idx <= Len(dishes)

\* continue: an empty or too short candidate
SkipShort ==
    /\ InLoop
    /\ TooShort(dishes[idx])
    /\ idx' = idx + 1
    /\ UNCHANGED <<dishes, categorized, current_marker_category, pc, exceptDishes>>

\* continue: a bare section label
SkipLabel ==
    /\ InLoop
    /\ ~TooShort(dishes[idx])
    /\ BareLabel(dishes[idx])
    /\ idx' = idx + 1
    /\ UNCHANGED <<dishes, categorized, current_marker_category, pc, exceptDishes>>

\* continue: a category marker sets the marker context
SetMarker ==
    /\ InLoop
    /\ ~TooShort(dishes[idx])
    /\ ~BareLabel(dishes[idx])
    /\ LET category == classify_dish(dishes[idx], current_marker_category)
       IN  /\ IsMarkerResult(category)
           /\ current_marker_category' = MarkerOf(category)
    /\ idx' = idx + 1
    /\ UNCHANGED <<dishes, categorized, pc, exceptDishes>>

\* the rest of the loop body: the marker context is kept or dropped and the
\* dish is appended
AppendDish ==
    /\ InLoop
    /\ ~TooShort(dishes[idx])
    /\ ~BareLabel(dishes[idx])
    /\ LET category == classify_dish(dishes[idx], current_marker_category)
       IN  /\ ~IsMarkerResult(category)
           /\ current_marker_category' =
                  MarkerAfterDish(category, dishes[idx], current_marker_category)
           /\ categorized' = Appended(categorized, category, dishes[idx])
    /\ idx' = idx + 1
    /\ UNCHANGED <<dishes, pc, exceptDishes>>

\* return categorized
Return ==
    /\ pc = "loop"
    /\ idx > Len(dishes)
    /\ pc' = "done"
    /\ UNCHANGED <<dishes, idx, categorized, current_marker_category, exceptDishes>>

Init == InitDishes /\ IdleDish /\ IdleMerge /\ IdleScrapers /\ IdleCalls /\ IdleParse /\ IdleSession

Next == SkipShort \/ SkipLabel \/ SetMarker \/ AppendDish \/ Return

Spec == Init /\ [][Next]_vars

(***************************************************************************)
(* merge_categories_for_display                                            *)
(***************************************************************************)

MaxMergeLen == 2

\* the dishes of the lists handed to the merge
MergeDishes == {"Halloumi", "Lax"}

RECURSIVE MergeListsOf(_)
MergeListsOf(n) ==
    IF n = 0 THEN {<<>>}
    ELSE LET shorter == MergeListsOf(n - 1)
         IN  shorter \cup {Append(l, d) : l \in shorter, d \in MergeDishes}

\* the dicts handed to the merge: each of the three keys present or missing
MergeArgs ==
    UNION {[keys -> MergeListsOf(MaxMergeLen)] : keys \in SUBSET Categories}

\* dict.get(key, default)
Get(dict, key, default) == IF key \in DOMAIN dict THEN dict[key] ELSE default

\* merge_categories_for_display with the fish list put before the meat list
merge_categories_for_display_FishFirst(categorized_) ==
    [vegetarian |-> Get(categorized_, "vegetarian", <<>>),
     meat |-> Get(categorized_, "fish", <<>>) \o Get(categorized_, "meat", <<>>)]

\* merge_categories_for_display returning the meat list alone, the fish dropped
merge_categories_for_display_DropFish(categorized_) ==
    [vegetarian |-> Get(categorized_, "vegetarian", <<>>),
     meat |-> Get(categorized_, "meat", <<>>)]

merge_categories_for_display(categorized_) ==
    [vegetarian |-> Get(categorized_, "vegetarian", <<>>),
     meat |-> Get(categorized_, "meat", <<>>) \o Get(categorized_, "fish", <<>>)]

InitMerge ==
    /\ merge_arg \in MergeArgs
    /\ merge_result = <<>>
    /\ pcMerge = "call"

\* the call merge_categories_for_display(merge_arg) returns
MergeCategories ==
    /\ pcMerge = "call"
    /\ merge_result' = merge_categories_for_display(merge_arg)
    /\ pcMerge' = "done"
    /\ UNCHANGED <<merge_arg, exceptMerge>>

SpecMergeInit == InitMerge /\ IdleDish /\ IdleDishes /\ IdleScrapers /\ IdleCalls /\ IdleParse /\ IdleSession

\* the caller hands the merged dict to the merge again
MergeAgain ==
    /\ pcMerge = "done"
    /\ merge_arg' = merge_result
    /\ merge_result' = <<>>
    /\ pcMerge' = "call"
    /\ UNCHANGED exceptMerge

SpecMergeNext == MergeCategories \/ MergeAgain

SpecMerge == SpecMergeInit /\ [][SpecMergeNext]_vars

(***************************************************************************)
(* Properties of classify_dish, checked under SpecDish                     *)
(***************************************************************************)

\* the text the rules of classify_dish look at
Lowered(text) == Strip(Lower(text))

\* the phrases the marker loop knows for each category
MarkerPhrases ==
    [category \in Categories |->
        UNION {{CATEGORY_MARKERS[c].markers[m] : m \in 1..Len(CATEGORY_MARKERS[c].markers)} :
                  c \in {d \in 1..Len(CATEGORY_MARKERS) : CATEGORY_MARKERS[d].category = category}}]

\* text is a marker line of the category: a phrase, a phrase and a colon, or a
\* phrase and a colon followed by more text
IsMarkerLineOf(text, category) ==
    LET t == Lowered(text)
    IN  \E phrase \in MarkerPhrases[category] :
            \/ t = phrase
            \/ t = phrase \o <<":">>
            \/ StartsWith(t, phrase \o <<":">>)

IsMarkerLine(text) == \E c \in Categories : IsMarkerLineOf(text, c)

HasExplicitVeg(text) == AnyIn(explicit_veg_markers, Lowered(text))
HasMeatDishName(text) == AnyIn(MEAT_DISHES, Lowered(text))
HasMeatKeyword(text) == AnyIn(MEAT_KEYWORDS, Lowered(text))
HasFishKeyword(text) == AnyIn(FISH_KEYWORDS, Lowered(text))
HasVegKeyword(text) == AnyIn(VEGETARIAN_KEYWORDS, Lowered(text))

\* one of the content rules (the rules before the previous_category fallback)
\* matches the text
MatchesContentRule(text) ==
    \/ HasExplicitVeg(text)
    \/ HasMeatDishName(text)
    \/ HasMeatKeyword(text)
    \/ HasFishKeyword(text)
    \/ HasVegKeyword(text)

C3_MeatBeatsVegetarianKeyword ==
    (pcDish = "done" /\ ~IsMarkerLine(dish) /\ HasVegKeyword(dish) /\ HasMeatKeyword(dish))
        => result = "meat"

\* C4 (as claimed): every text with a meat keyword and a fish keyword is
\* classified meat.
C4_MeatAndFishIsMeat ==
    (pcDish = "done" /\ HasMeatKeyword(dish) /\ HasFishKeyword(dish))
        => result = "meat"

\* C4 (amended): a text with a meat keyword and a fish keyword is never
\* classified fish; it is classified meat unless it is a marker line or
\* contains an explicit vegetarian/vegan indicator.
C4_MeatBeatsFish ==
    (pcDish = "done" /\ HasMeatKeyword(dish) /\ HasFishKeyword(dish))
        => /\ result # "fish"
           /\ (~IsMarkerLine(dish) /\ ~HasExplicitVeg(dish)) => result = "meat"

\* C4 witness: a fish keyword inside a longer word, next to a meat keyword
C4_Witness ==
    /\ pcDish = "done"
    /\ HasMeatKeyword(dish)
    /\ HasFishKeyword(dish)
    /\ ~IsMarkerLine(dish)
    /\ ~HasExplicitVeg(dish)
    /\ previous_category = "fish"
    /\ result = "meat"

C6_PreviousCategoryOverrides ==
    (pcDish = "done" /\ ~IsMarkerLine(dish) /\ previous_category # None)
        => result = previous_category

\* C7: a marker line is classified marker:<category> for the first of
\* vegetarian, fish, meat whose phrases it matches, whatever previous_category
\* is and whatever follows the colon.
C7_MarkerLine ==
    pcDish = "done" =>
        /\ IsMarkerLineOf(dish, "vegetarian") => result = "marker:vegetarian"
        /\ (~IsMarkerLineOf(dish, "vegetarian") /\ IsMarkerLineOf(dish, "fish"))
              => result = "marker:fish"
        /\ (/\ ~IsMarkerLineOf(dish, "vegetarian")
            /\ ~IsMarkerLineOf(dish, "fish")
            /\ IsMarkerLineOf(dish, "meat"))
              => result = "marker:meat"

\* C7 witness: a fish marker followed on its line by a meat keyword, classified
\* under a meat marker
C7_Witness ==
    /\ pcDish = "done"
    /\ IsMarkerLineOf(dish, "fish")
    /\ HasMeatKeyword(dish)
    /\ Len(Lowered(dish)) > Len(<<"f","i","s","k",":">>)
    /\ previous_category = "meat"
    /\ result = "marker:fish"

(***************************************************************************)
(* Properties of classify_dishes, checked under Spec                       *)
(***************************************************************************)

\* the candidate is removed by the empty/length/label filters
FilteredOut(text) ==
    \/ Len(Strip(text)) < 3
    \/ (Len(Lowered(text)) < 15 /\ \E n \in 1..Len(SKIP_LABELS) : Contains(SKIP_LABELS[n], Lowered(text)))

\* the candidate at position i is a marker line that reaches the classifier
MarkerAt(i) == ~FilteredOut(dishes[i]) /\ IsMarkerLine(dishes[i])

\* the category of the marker line
MarkerLineCategory(text) ==
    IF IsMarkerLineOf(text, "vegetarian") THEN "vegetarian"
    ELSE IF IsMarkerLineOf(text, "fish") THEN "fish"
    ELSE "meat"

HasAnyKeyword(text) == HasFishKeyword(text) \/ HasMeatKeyword(text) \/ HasVegKeyword(text)

TotalEmitted == Len(categorized.vegetarian) + Len(categorized.fish) + Len(categorized.meat)

NumFilteredOut == Cardinality({i \in 1..Len(dishes) : FilteredOut(dishes[i])})

NumMarkerLines == Cardinality({i \in 1..Len(dishes) : MarkerAt(i)})

\* C1 (as claimed): the three lists together hold as many strings as there are
\* candidates that pass the empty/length/label filters.
C1_NoCandidateDropped ==
    pc = "done" => TotalEmitted = Len(dishes) - NumFilteredOut

\* C1 (amended): the three lists together hold as many strings as there are
\* candidates that pass the filters and are not marker lines.
C1_OnlyFiltersAndMarkersDrop ==
    pc = "done" => TotalEmitted = Len(dishes) - NumFilteredOut - NumMarkerLines

\* C1 witness: a list with a filtered candidate, a marker line and a dish
C1_Witness ==
    /\ pc = "done"
    /\ NumFilteredOut = 1
    /\ NumMarkerLines = 1
    /\ TotalEmitted = 1

\* the marker context the claim gives position i: the category of the closest
\* marker line before i, unless a dish between the two has keywords that give
\* it another category
SectionOf(i) ==
    LET markers == {m \in 1..(i - 1) : MarkerAt(m)}
    IN  IF markers = {} THEN None
        ELSE LET m == CHOOSE x \in markers : \A y \in markers : y <= x
                 c == MarkerLineCategory(dishes[m])
             IN  IF \E k \in (m + 1)..(i - 1) :
                        /\ ~FilteredOut(dishes[k])
                        /\ HasAnyKeyword(dishes[k])
                        /\ classify_dish(dishes[k], None) # c
                 THEN None
                 ELSE c

\* the candidate at position i passes the filters, is no marker line and
\* matches no content rule
PlainDishAt(i) ==
    /\ ~FilteredOut(dishes[i])
    /\ ~IsMarkerLine(dishes[i])
    /\ ~MatchesContentRule(dishes[i])

\* C8: in the section of a marker line of category c, which lasts until the
\* next marker line or a dish whose keywords give another category, every
\* candidate that passes the filters and matches no content rule is appended
\* to list c, and to no other list.
C8_MarkerPersists ==
    [][\A c \in Categories :
          (InLoop /\ SectionOf(idx) = c /\ PlainDishAt(idx))
              => categorized' = [categorized EXCEPT ![c] = Append(@, dishes[idx])]]_vars

\* C8 witness: two dishes without keywords after a vegetarian marker, both in
\* the vegetarian list
C8_Witness ==
    /\ pc = "done"
    /\ Len(dishes) = 3
    /\ MarkerAt(1)
    /\ MarkerLineCategory(dishes[1]) = "vegetarian"
    /\ PlainDishAt(2)
    /\ PlainDishAt(3)
    /\ categorized.vegetarian = <<dishes[2], dishes[3]>>

\* C9: a candidate that passes the filters and for which classify_dish returns
\* None is appended to the meat list and to no other list.
C9_UnclassifiedToMeat ==
    [][(/\ InLoop
        /\ ~FilteredOut(dishes[idx])
        /\ classify_dish(dishes[idx], current_marker_category) = None)
          => categorized' = [categorized EXCEPT !.meat = Append(@, dishes[idx])]]_vars

\* C9 witness: a dish that matches no rule, in a list without marker lines,
\* ends in the meat list
C9_Witness ==
    /\ pc = "done"
    /\ NumMarkerLines = 0
    /\ \E i \in 1..Len(dishes) :
          /\ ~FilteredOut(dishes[i])
          /\ classify_dish(dishes[i], None) = None
          /\ \E j \in 1..Len(categorized.meat) : categorized.meat[j] = dishes[i]
    /\ categorized.vegetarian = <<>>
    /\ categorized.fish = <<>>

(***************************************************************************)
(* Properties of merge_categories_for_display, checked under SpecMerge     *)
(***************************************************************************)

\* the list the argument holds under the key, the empty list for a missing key
GivenList(key) == IF key \in DOMAIN merge_arg THEN merge_arg[key] ELSE <<>>

\* C10: for every argument, a missing key counting as an empty list, the merge
\* returns exactly the keys vegetarian and meat; vegetarian is the given
\* vegetarian list and meat is the given meat list followed by the given fish
\* list, each in its order.  The call returns for every argument.
C10_MergeResult ==
    /\ pcMerge = "call" => ENABLED MergeCategories
    /\ pcMerge = "done" =>
          /\ DOMAIN merge_result = {"vegetarian", "meat"}
          /\ merge_result.vegetarian = GivenList("vegetarian")
          /\ Len(merge_result.meat) = Len(GivenList("meat")) + Len(GivenList("fish"))
          /\ \A i \in 1..Len(GivenList("meat")) :
                merge_result.meat[i] = GivenList("meat")[i]
          /\ \A i \in 1..Len(GivenList("fish")) :
                merge_result.meat[Len(GivenList("meat")) + i] = GivenList("fish")[i]

\* C10 witness: an argument without the vegetarian key, with meat and fish
\* lists of different dishes
C10_Witness ==
    /\ pcMerge = "done"
    /\ DOMAIN merge_arg = {"meat", "fish"}
    /\ merge_arg.meat = <<"Halloumi", "Lax">>
    /\ merge_arg.fish = <<"Lax", "Halloumi">>
    /\ merge_result.vegetarian = <<>>
    /\ merge_result.meat = <<"Halloumi", "Lax", "Lax", "Halloumi">>

\* C11: the merged meat list is as long as the given meat and fish lists
\* together, and merging a dict without a fish key (a merged result) returns
\* its vegetarian and meat lists unchanged.
C11_LengthAndIdempotence ==
    pcMerge = "done" =>
        /\ Len(merge_result.meat) = Len(GivenList("meat")) + Len(GivenList("fish"))
        /\ "fish" \notin DOMAIN merge_arg =>
              /\ merge_result.vegetarian = GivenList("vegetarian")
              /\ merge_result.meat = GivenList("meat")

\* C11 witness: a merged result, its meat list made of a meat and a fish list,
\* merged again
C11_Witness ==
    /\ pcMerge = "done"
    /\ merge_arg = [vegetarian |-> <<"Halloumi">>, meat |-> <<"Lax", "Lax", "Halloumi">>]
    /\ merge_result = merge_arg

\* every candidate of the list is noise or a marker line
OnlyNoiseAndMarkers == \A i \in 1..Len(dishes) : FilteredOut(dishes[i]) \/ IsMarkerLine(dishes[i])

\* C12: classify_dishes is total.  At every point of the loop the result has
\* exactly the keys vegetarian, fish and meat, each a list of candidates; the
\* index never passes the end of the list by more than one; every candidate
\* that is not skipped classifies as a marker of a category, as a category or
\* as nothing, the cases the loop body handles; for the empty list, and for a
\* list of noise and marker lines only, the three lists are empty.
C12_Total ==
    /\ pc \in {"loop", "done"} =>
          /\ DOMAIN categorized = {"vegetarian", "fish", "meat"}
          /\ \A c \in DOMAIN categorized :
                \A n \in 1..Len(categorized[c]) :
                    \E i \in 1..Len(dishes) : categorized[c][n] = dishes[i]
          /\ idx \in 1..(Len(dishes) + 1)
    /\ current_marker_category \in Categories \cup {None}
    /\ (InLoop /\ ~TooShort(dishes[idx]) /\ ~BareLabel(dishes[idx])) =>
          LET category == classify_dish(dishes[idx], current_marker_category)
          IN  \/ IsMarkerResult(category) /\ MarkerOf(category) \in Categories
              \/ category \in Categories \cup {None}
    /\ (pc = "done" /\ OnlyNoiseAndMarkers) =>
          categorized = [vegetarian |-> <<>>, fish |-> <<>>, meat |-> <<>>]

\* C12 witness: a list of a noise candidate, a label and a marker line has been
\* classified
C12_Witness ==
    /\ pc = "done"
    /\ Len(dishes) = 3
    /\ OnlyNoiseAndMarkers
    /\ NumMarkerLines = 1
    /\ \E i \in 1..Len(dishes) : dishes[i] = <<>>
    /\ \E i \in 1..Len(dishes) : BareLabel(dishes[i])
    /\ TotalEmitted = 0

\* the loop is at a candidate that is appended as a dish while a marker is
\* active
DishUnderMarker ==
    /\ InLoop
    /\ current_marker_category # None
    /\ ~FilteredOut(dishes[idx])
    /\ ~IsMarkerLine(dishes[idx])

\* C20 as stated: whenever a marker is active and a dish receives from its own
\* content (one of the rules before the marker fallback) a category different
\* from the marker, the marker context is cleared.
C20_ClearedOnContentCategory ==
    [][(/\ DishUnderMarker
        /\ MatchesContentRule(dishes[idx])
        /\ classify_dish(dishes[idx], current_marker_category) # current_marker_category)
           => current_marker_category' = None]_vars

\* C20 amended: when a marker is active and a dish receives a category
\* different from the marker, the marker context is cleared if the dish holds
\* a keyword of the fish, meat or vegetarian keyword lists; in every other case
\* (an always-meat dish name without a keyword included) the marker stays.
C20_ClearedOnKeyword ==
    [][DishUnderMarker =>
          IF /\ classify_dish(dishes[idx], current_marker_category) # current_marker_category
             /\ HasAnyKeyword(dishes[idx])
          THEN current_marker_category' = None
          ELSE current_marker_category' = current_marker_category]_vars

\* C20 witness: a marker line, a dish whose keywords give another category, and
\* a dish matching no rule, which is in the meat list and not in the marker's
C20_Witness ==
    /\ pc = "done"
    /\ Len(dishes) = 3
    /\ MarkerAt(1)
    /\ ~FilteredOut(dishes[2]) /\ ~IsMarkerLine(dishes[2])
    /\ HasAnyKeyword(dishes[2])
    /\ classify_dish(dishes[2], MarkerLineCategory(dishes[1])) # MarkerLineCategory(dishes[1])
    /\ PlainDishAt(3)
    /\ current_marker_category = None
    /\ categorized[MarkerLineCategory(dishes[1])] = <<>>
    /\ categorized.meat = <<dishes[2], dishes[3]>>

(***************************************************************************)
(* cli.py: the display of the fetched menus                                *)
(*                                                                         *)
(* The output is the sequence of the lines echoed; blank lines, rules and  *)
(* the date in the title are left out.  all_menus is the sequence of the   *)
(* entries of the dict, in its order.                                      *)
(***************************************************************************)

\* the longest category list of a displayed menu
MaxCliLen == 1

\* the dish the displayed menus hold in each category list
CliDish == [vegetarian |-> "Halloumi", fish |-> "Lax", meat |-> "Biff"]

\* the section titles of the three category lists
SectionTitle == [vegetarian |-> "Vegetarian", fish |-> "Fish", meat |-> "Meat"]

CliListsOf(k) == UNION {[1..n -> {CliDish[k]}] : n \in 0..MaxCliLen}

\* day menus as the scrapers hand them over: with the three keys, or with
\* vegetarian and meat only
CliDayMenus ==
    LET lists == UNION {CliListsOf(k) : k \in Categories}
    IN  UNION {{menu \in [keys -> lists] : \A k \in keys : menu[k] \in CliListsOf(k)} :
               keys \in {Categories, {"vegetarian", "meat"}}}

\* the days the weekly menus shown may hold: a weekday and a weekend day
CliDays == {"fredag", "lördag"}

CliWeeklyMenus == UNION {[days -> CliDayMenus] : days \in SUBSET CliDays}

RestaurantName == "Gourmedia"

\* restaurant_name.upper() on the names of the menus shown
UpperName == (RestaurantName :> "GOURMEDIA")

\* day_names of display_all_weekly_menus, in the order of the dict
cli_day_names ==
    << <<"måndag", "Monday">>, <<"tisdag", "Tuesday">>, <<"onsdag", "Wednesday">>,
       <<"torsdag", "Thursday">>, <<"fredag", "Friday">>, <<"lördag", "Saturday">>,
       <<"söndag", "Sunday">> >>

RECURSIVE Flatten(_)
Flatten(seqs) == IF seqs = <<>> THEN <<>> ELSE Head(seqs) \o Flatten(Tail(seqs))

\* one section: its title and its items, when it is shown and not empty
SectionLines(menu, key, shown) ==
    LET items == Get(menu, key, <<>>)
    IN  IF shown /\ items # <<>>
        THEN << <<"header", SectionTitle[key]>> >> \o [i \in 1..Len(items) |-> <<"item", items[i]>>]
        ELSE <<>>

\* the fish section: shown unless --vegetarian-only is given
FishLines(menu, vegetarian_only_, meat_only_) ==
    SectionLines(menu, "fish", ~vegetarian_only_)

\* the three sections of one day menu, or the message that there is none
DayLines(menu, vegetarian_only_, meat_only_, message) ==
    LET lines == SectionLines(menu, "vegetarian", ~meat_only_)
                 \o FishLines(menu, vegetarian_only_, meat_only_)
                 \o SectionLines(menu, "meat", ~vegetarian_only_)
    IN  IF lines = <<>> THEN << <<"none", message>> >> ELSE lines

display_all_daily_menus(all_menus_, vegetarian_only_, meat_only_) ==
    << <<"title", "LUNCH MENU">> >>
    \o Flatten([r \in 1..Len(all_menus_) |->
           << <<"restaurant", UpperName[all_menus_[r].name]>> >>
           \o DayLines(all_menus_[r].menu, vegetarian_only_, meat_only_,
                       "No menu items found for today")])

\* the lines of one day of a weekly menu: none for a day without key and for
\* an empty weekend day
WeekDayLines(weekly_menu_, d, vegetarian_only_, meat_only_) ==
    LET day_key == cli_day_names[d][1]
    IN  IF day_key \notin DOMAIN weekly_menu_ THEN <<>>
        ELSE LET menu == weekly_menu_[day_key]
             IN  IF /\ Get(menu, "vegetarian", <<>>) = <<>>
                    /\ Get(menu, "fish", <<>>) = <<>>
                    /\ Get(menu, "meat", <<>>) = <<>>
                    /\ day_key \in {"lördag", "söndag"}
                 THEN <<>>
                 ELSE << <<"day", cli_day_names[d][2]>> >>
                      \o DayLines(menu, vegetarian_only_, meat_only_, "No menu available")

display_all_weekly_menus(all_menus_, vegetarian_only_, meat_only_) ==
    << <<"title", "WEEKLY LUNCH MENU">> >>
    \o Flatten([r \in 1..Len(all_menus_) |->
           << <<"restaurant", UpperName[all_menus_[r].name]>> >>
           \o Flatten([d \in 1..Len(cli_day_names) |->
                  WeekDayLines(all_menus_[r].menu, d, vegetarian_only_, meat_only_)])])

InitCli ==
    /\ week \in BOOLEAN
    /\ vegetarian_only \in BOOLEAN
    /\ meat_only \in BOOLEAN
    /\ all_menus \in {<<[name |-> RestaurantName, menu |-> menu]>> :
                        menu \in IF week THEN CliWeeklyMenus ELSE CliDayMenus}
    /\ echoed = <<>>
    /\ pcCli = "call"

\* main: display_all_daily_menus(all_menus, vegetarian_only, meat_only)
DisplayDaily ==
    /\ pcCli = "call"
    /\ ~week
    /\ echoed' = display_all_daily_menus(all_menus, vegetarian_only, meat_only)
    /\ pcCli' = "done"
    /\ UNCHANGED <<week, all_menus, vegetarian_only, meat_only, exceptCli>>

\* main: display_all_weekly_menus(all_menus, vegetarian_only, meat_only)
DisplayWeekly ==
    /\ pcCli = "call"
    /\ week
    /\ echoed' = display_all_weekly_menus(all_menus, vegetarian_only, meat_only)
    /\ pcCli' = "done"
    /\ UNCHANGED <<week, all_menus, vegetarian_only, meat_only, exceptCli>>

SpecCliInit == InitCli /\ IdleDish /\ IdleDishes /\ IdleMerge /\ IdleIss /\ IdleKv /\ IdleCalls /\ IdleParse /\ IdleSession

SpecCliNext == DisplayDaily \/ DisplayWeekly

SpecCli == SpecCliInit /\ [][SpecCliNext]_vars

\* the lines of the section of list k: its title and its dish
LinesOfSection(k) == {<<"header", SectionTitle[k]>>, <<"item", CliDish[k]>>}

\* C19: in the daily and the weekly display, with --meat-only no line of the
\* vegetarian or the fish section is printed, and with --vegetarian-only no
\* line of the fish or the meat section.
C19_OnlySelectedList ==
    pcCli = "done" =>
        \A i \in 1..Len(echoed) :
            /\ meat_only =>
                  echoed[i] \notin LinesOfSection("vegetarian") \cup LinesOfSection("fish")
            /\ vegetarian_only =>
                  echoed[i] \notin LinesOfSection("fish") \cup LinesOfSection("meat")

(***************************************************************************)
(* classify_dishes as a function of the list, for the callers below: the   *)
(* loop of the actions SkipShort .. Return, run to its end                 *)
(***************************************************************************)

RECURSIVE ClassifyFrom(_, _, _, _)
ClassifyFrom(dishes_, i, lists, marker) ==
    IF i > Len(dishes_) THEN lists
    ELSE IF TooShort(dishes_[i]) \/ BareLabel(dishes_[i])
    THEN ClassifyFrom(dishes_, i + 1, lists, marker)
    ELSE LET category == classify_dish(dishes_[i], marker)
         IN  IF IsMarkerResult(category)
             THEN ClassifyFrom(dishes_, i + 1, lists, MarkerOf(category))
             ELSE ClassifyFrom(dishes_, i + 1,
                               Appended(lists, category, dishes_[i]),
                               MarkerAfterDish(category, dishes_[i], marker))

classify_dishes(dishes_) ==
    ClassifyFrom(dishes_, 1, [vegetarian |-> <<>>, meat |-> <<>>, fish |-> <<>>], None)

(***************************************************************************)
(* What a call hands back: a value, or an exception with its message       *)
(***************************************************************************)

Returned(value) == [returned |-> value]

Raised(message) == [raised |-> message]

\* raise Exception(f"Failed to fetch menu: {e}") around a call
FailedToFetch(outcome) ==
    IF "raised" \in DOMAIN outcome
    THEN Raised("Failed to fetch menu: " \o outcome.raised)
    ELSE outcome

\* the weekday keys of both scrapers, date.weekday() counting from 0
day_names == <<"måndag", "tisdag", "onsdag", "torsdag", "fredag", "lördag", "söndag">>

\* the values of date.weekday()
Weekdays == 0..(Len(day_names) - 1)

\* ', '.join(keys)
RECURSIVE Join(_, _)
Join(strings, sep) ==
    IF strings = <<>> THEN ""
    ELSE IF Len(strings) = 1 THEN strings[1]
    ELSE strings[1] \o sep \o Join(Tail(strings), sep)

\* str.split(sep) for a separator of one character
RECURSIVE Split(_, _)
Split(s, sep) ==
    IF \A i \in 1..Len(s) : s[i] # sep THEN <<s>>
    ELSE LET i == CHOOSE k \in 1..Len(s) : s[k] = sep /\ \A j \in 1..(k - 1) : s[j] # sep
         IN  <<SubSeq(s, 1, i - 1)>> \o Split(SubSeq(s, i + 1, Len(s)), sep)

NonEmpty(s) == s # <<>>

(***************************************************************************)
(* iss_scraper.py                                                          *)
(***************************************************************************)

_parse_day_menu_from_text(menu_text) ==
    IF menu_text = <<>>
    THEN [vegetarian |-> <<>>, fish |-> <<>>, meat |-> <<>>]
    ELSE LET lines == Split(menu_text, "\n")
             partsOf(line) ==
                 IF Strip(line) = <<>> THEN <<>>
                 ELSE LET parts == Split(Strip(line), "\t")
                      IN  SelectSeq([p \in 1..Len(parts) |-> Strip(parts[p])], NonEmpty)
         IN  classify_dishes(Flatten([l \in 1..Len(lines) |-> partsOf(lines[l])]))

\* the longest menuSwedish list: one entry more than there are weekdays
MaxMenuSwedish == Len(day_names) + 1

\* menu texts of the API: a marker line alone; a marker line, tab-separated
\* dishes and an empty line; one dish in whitespace
IssTexts ==
    { <<"F","i","s","k",":">>,
      <<"V","e","g","e","t","a","r","i","s","k","t",":","\n","H","a","l","l","o","u","m","i","\t"," ","L","a","x"," ","m","e","d"," ","r","i","s"," ","\n","\n"," ","Ä","r","t","s","o","p","p","a">>,
      <<" "," ","B","i","f","f"," ","m","e","d"," ","l","ö","k"," ","\n">> }

\* entries of menuSwedish that give no menu: no 'menu' key, an empty text, a
\* text of whitespace
BlankEntries ==
    { [day |-> <<"s","ö","n","d","a","g">>], [menu |-> <<>>], [menu |-> <<" ","\n","\t">>] }

\* menuSwedish lists: at each position the list's menu text or its blank entry
IssMenuLists ==
    UNION {{[i \in 1..n |-> IF i \in filled THEN [menu |-> text] ELSE blank] :
                filled \in SUBSET (1..n), text \in IssTexts, blank \in BlankEntries} :
           n \in 0..MaxMenuSwedish}

\* what _fetch_menu_from_api hands back: its exception, or the JSON of the
\* response, with or without dataItems, data and menuSwedish
FetchFailed == Raised("Failed to fetch menu from API: 500 Server Error")

ApiResponses ==
    {[status |-> "ok"], [dataItems |-> <<>>], [dataItems |-> <<[id |-> "menu"]>>],
     [dataItems |-> <<[data |-> [title |-> "menu"]]>>]}
    \cup {[dataItems |-> <<[data |-> [menuSwedish |-> list]]>>] : list \in IssMenuLists}

\* _parse_day_menu_from_text on the stripped menu texts of the responses,
\* tabulated
ParsedMenuText ==
    [menu_text \in {Strip(text) : text \in IssTexts} |-> _parse_day_menu_from_text(menu_text)]

\* self._parse_day_menu_from_text(menu_text)
DayMenuOf(menu_text) ==
    IF menu_text \in DOMAIN ParsedMenuText
    THEN ParsedMenuText[menu_text]
    ELSE _parse_day_menu_from_text(menu_text)

\* _parse_api_response filing every entry, the eighth and later under söndag
DayIndex_NoBreak(i) == IF i > Len(day_names) THEN Len(day_names) ELSE i

\* the position in day_names of the i-th entry of menuSwedish; none past the
\* last weekday, where the loop breaks
DayIndex(i) == IF i > Len(day_names) THEN 0 ELSE i

_parse_api_response(api_data_) ==
    LET items == Get(api_data_, "dataItems", <<>>)
    IN  IF items = <<>> THEN Raised("No menu items found in API response")
        ELSE
        LET menu_data == Get(items[1], "data", <<>>)
            menu_swedish == Get(menu_data, "menuSwedish", <<>>)
            menu_text(i) == Strip(Get(menu_swedish[i], "menu", <<>>))
            stored == {i \in 1..Len(menu_swedish) : DayIndex(i) # 0 /\ menu_text(i) # <<>>}
            \* the entry whose menu the day keeps: the last one filed under it
            entryOf(d) == CHOOSE i \in stored :
                              /\ day_names[DayIndex(i)] = d
                              /\ \A j \in stored : day_names[DayIndex(j)] = d => j <= i
        IN  IF menu_swedish = <<>> THEN Raised("No menuSwedish data found in API response")
            ELSE IF stored = {} THEN Raised("Could not parse any menu data from API response")
            ELSE Returned([d \in {day_names[DayIndex(i)] : i \in stored} |->
                              DayMenuOf(menu_text(entryOf(d)))])

\* the keys of a weekly menu in the order of their insertion, which is the
\* order of the weekdays
KeysOf(weekly_menu_) ==
    SelectSeq(day_names, LAMBDA d : d \in DOMAIN weekly_menu_)

\* _fetch_menu_from_api followed by _parse_api_response, inside the try
FetchAndParse(api_data_) ==
    FailedToFetch(IF "raised" \in DOMAIN api_data_ THEN api_data_
                  ELSE _parse_api_response(api_data_))

iss_get_weekly_menu(api_data_) == FetchAndParse(api_data_)

iss_get_menu_for_day(api_data_, day_of_week) ==
    LET parsed == FetchAndParse(api_data_)
    IN  IF "raised" \in DOMAIN parsed THEN parsed
        ELSE IF day_of_week >= Len(day_names)
        THEN Returned([vegetarian |-> <<>>, meat |-> <<>>])
        ELSE LET day_name == day_names[day_of_week + 1]
                 weekly_menu_ == parsed.returned
             IN  IF day_name \notin DOMAIN weekly_menu_
                 THEN Raised("No menu found for " \o day_name \o ". Available days: "
                             \o Join(KeysOf(weekly_menu_), ", "))
                 ELSE Returned(weekly_menu_[day_name])

InitIss ==
    /\ api_data \in ApiResponses \cup {FetchFailed}
    /\ iss_day_of_week = None
    /\ iss_returned = <<>>
    /\ pcIss = "fetched"

\* a direct call of _parse_api_response on the JSON of a response
ParseApiResponse ==
    /\ pcIss = "fetched"
    /\ api_data # FetchFailed
    /\ iss_returned' = _parse_api_response(api_data)
    /\ pcIss' = "parsed"
    /\ UNCHANGED <<api_data, iss_day_of_week, exceptIss>>

IssGetWeeklyMenu ==
    /\ pcIss = "fetched"
    /\ iss_returned' = iss_get_weekly_menu(api_data)
    /\ pcIss' = "weekly"
    /\ UNCHANGED <<api_data, iss_day_of_week, exceptIss>>

IssGetMenuForDay ==
    /\ pcIss = "fetched"
    /\ \E day_of_week \in Weekdays :
          /\ iss_day_of_week' = day_of_week
          /\ iss_returned' = iss_get_menu_for_day(api_data, day_of_week)
    /\ pcIss' = "day"
    /\ UNCHANGED <<api_data, exceptIss>>

(***************************************************************************)
(* kvartersmenyn_scraper.py                                                *)
(***************************************************************************)

\* the weekday keys as texts
DayText ==
    ("måndag" :> <<"m","å","n","d","a","g">>) @@
    ("tisdag" :> <<"t","i","s","d","a","g">>) @@
    ("onsdag" :> <<"o","n","s","d","a","g">>) @@
    ("torsdag" :> <<"t","o","r","s","d","a","g">>) @@
    ("fredag" :> <<"f","r","e","d","a","g">>) @@
    ("lördag" :> <<"l","ö","r","d","a","g">>) @@
    ("söndag" :> <<"s","ö","n","d","a","g">>)

\* day_text in day_names
IsDayName(day_text) == \E d \in DOMAIN DayText : DayText[d] = day_text

DayNameOf(day_text) == CHOOSE d \in DOMAIN DayText : DayText[d] = day_text

\* len(line) < 2
MinLineLength == 2

\* len(dish) >= 5
MinCleanedLength == 5

\* [A-E]
RatingLetters == {"A", "B", "C", "D", "E"}

\* [a-z]
LowerAscii ==
    {"a", "b", "c", "d", "e", "f", "g", "h", "i", "j", "k", "l", "m",
     "n", "o", "p", "q", "r", "s", "t", "u", "v", "w", "x", "y", "z"}

\* the phrases of a metadata line
MetadataPhrases ==
    << <<"K","l","i","m","a","t","o">>,
       <<"C","O","2","e","-","d","a","t","a">>,
       <<"P","R","I","S",":">>,
       <<"Ö","p","p","e","t",":">>,
       <<"V","e","c","k","a","n","s">>,
       <<"V","E","G","O"," ","H","E","L","A"," ","V","E","C","K","A","N">> >>

\* the length of the match of ^[A-E]\.?\s+ at the start of the line, 0 for
\* no match
RatingPrefixLen(line) ==
    IF Len(line) < 2 \/ line[1] \notin RatingLetters THEN 0
    ELSE LET first == IF line[2] = "." THEN 3 ELSE 2
             rest == {j \in first..Len(line) : line[j] \notin Whitespace}
             stop == IF rest = {} THEN Len(line) + 1
                     ELSE CHOOSE j \in rest : \A k \in rest : j <= k
         IN  IF stop > first THEN stop - 1 ELSE 0

\* re.match(r'^[A-E]\.?\s+', line)
StartsNewDish(line) == RatingPrefixLen(line) > 0

\* re.sub(r'^[A-E]\.?\s+', '', dish)
WithoutRating(dish_) == SubSeq(dish_, RatingPrefixLen(dish_) + 1, Len(dish_))

\* re.sub(r'_[a-z]+_', '', dish)
RECURSIVE WithoutCodes(_)
WithoutCodes(s) ==
    IF s = <<>> THEN <<>>
    ELSE LET ends == {j \in 3..Len(s) :
                         s[j] = "_" /\ \A k \in 2..(j - 1) : s[k] \in LowerAscii}
         IN  IF s[1] = "_" /\ ends # {}
             THEN WithoutCodes(SubSeq(s, (CHOOSE j \in ends : TRUE) + 1, Len(s)))
             ELSE <<s[1]>> \o WithoutCodes(Tail(s))

\* re.sub(r'\s+', ' ', dish)
RECURSIVE SingleSpaces(_)
SingleSpaces(s) ==
    IF s = <<>> THEN <<>>
    ELSE IF s[1] \in Whitespace
    THEN IF Len(s) > 1 /\ s[2] \in Whitespace
         THEN SingleSpaces(Tail(s))
         ELSE <<" ">> \o SingleSpaces(Tail(s))
    ELSE <<s[1]>> \o SingleSpaces(Tail(s))

\* JoinLines putting the lines together with nothing in between
RECURSIVE JoinLines_NoSpace(_)
JoinLines_NoSpace(lines) ==
    IF lines = <<>> THEN <<>>
    ELSE lines[1] \o JoinLines_NoSpace(Tail(lines))

\* ' '.join(lines)
RECURSIVE JoinLines(_)
JoinLines(lines) ==
    IF lines = <<>> THEN <<>>
    ELSE IF Len(lines) = 1 THEN lines[1]
    ELSE lines[1] \o <<" ">> \o JoinLines(Tail(lines))

\* Combined with every line a dish of its own
Combined_NoJoin(lines, i, combined_dishes, current_dish) ==
    SelectSeq([n \in 1..Len(lines) |-> Strip(lines[n])], LAMBDA l : Len(l) >= MinLineLength)

\* the first loop of _parse_dishes: a line with a climate rating starts a
\* dish, the lines after it continue it
RECURSIVE Combined(_, _, _, _)
Combined(lines, i, combined_dishes, current_dish) ==
    IF i > Len(lines)
    THEN IF current_dish # <<>>
         THEN Append(combined_dishes, JoinLines(current_dish))
         ELSE combined_dishes
    ELSE LET line == Strip(lines[i])
         IN  IF Len(line) < MinLineLength
             THEN Combined(lines, i + 1, combined_dishes, current_dish)
             ELSE IF StartsNewDish(line)
             THEN Combined(lines, i + 1,
                           IF current_dish # <<>>
                           THEN Append(combined_dishes, JoinLines(current_dish))
                           ELSE combined_dishes,
                           <<line>>)
             ELSE IF current_dish # <<>>
             THEN Combined(lines, i + 1, combined_dishes, Append(current_dish, line))
             ELSE Combined(lines, i + 1, Append(combined_dishes, line), current_dish)

\* the clean-up of one combined dish
Cleaned(dish_) == Strip(SingleSpaces(WithoutRating(WithoutCodes(dish_))))

\* the second loop of _parse_dishes
CleanedDishes(combined_dishes) ==
    LET kept == SelectSeq(combined_dishes, LAMBDA d : ~AnyIn(MetadataPhrases, d))
        cleaned == [n \in 1..Len(kept) |-> Cleaned(kept[n])]
    IN  SelectSeq(cleaned, LAMBDA d : d # <<>> /\ Len(d) >= MinCleanedLength)

_parse_dishes(dishes_) ==
    IF dishes_ = <<>> THEN [vegetarian |-> <<>>, meat |-> <<>>]
    ELSE merge_categories_for_display(
             classify_dishes(CleanedDishes(Combined(dishes_, 1, <<>>, <<>>))))

\* the most children of the menu div
MaxChildren == 3

\* children of the menu div: bold day headers, a bold header that names no
\* day, a heading with a day name, a line break, and text nodes (name None):
\* a dish with a climate rating over two lines, a marker line alone, a dish
\* with an allergen code, a metadata line
KvElements ==
    { [name |-> "b", text |-> <<"M","å","n","d","a","g">>],
      [name |-> "strong", text |-> <<" ","T","i","s","d","a","g"," ">>],
      [name |-> "b", text |-> <<"V","e","c","k","a","n","s"," ","s","a","l","l","a","d">>],
      [name |-> "h2", text |-> <<"O","n","s","d","a","g">>],
      [name |-> "br", text |-> <<>>],
      [name |-> None, text |-> <<"\n"," ","A","."," ","B","i","f","f"," ","m","e","d"," ","l","ö","k","\n"," ","s","e","r","v","e","r","a","s"," "," ","m","e","d"," ","r","i","s","\n">>],
      [name |-> None, text |-> <<" ","F","i","s","k",":"," ">>],
      [name |-> None, text |-> <<"H","a","l","l","o","u","m","i"," ","_","v","_">>],
      [name |-> None, text |-> <<"P","R","I","S",":"," ","1","2","5"," ","k","r">>] }

\* the pages: without a menu div, or with one and its children
Pages ==
    {[body |-> <<>>]}
    \cup {[meny |-> children] :
            children \in UNION {[1..n -> KvElements] : n \in 0..MaxChildren}}

\* what _fetch_page hands back when the request fails
PageFailed == Raised("Failed to fetch menu page: 503 Server Error")

\* menu_div.children
Children == Get(soup, "meny", <<>>)

\* the weekly menu with the current day saved: only a day that has dishes
\* collected and a vegetarian or meat item parsed from them
Saved_AnyDishes(weekly_menu_, current_day_, current_dishes_) ==
    IF current_day_ # None /\ current_dishes_ # <<>>
    THEN (current_day_ :> _parse_dishes(current_dishes_)) @@ weekly_menu_
    ELSE weekly_menu_

Saved(weekly_menu_, current_day_, current_dishes_) ==
    IF current_day_ # None /\ current_dishes_ # <<>>
    THEN LET menu_items == _parse_dishes(current_dishes_)
         IN  IF menu_items.vegetarian # <<>> \/ menu_items.meat # <<>>
             THEN (current_day_ :> menu_items) @@ weekly_menu_
             ELSE weekly_menu_
    ELSE weekly_menu_

InitKv ==
    /\ soup \in Pages \cup {PageFailed}
    /\ element_idx = 1
    /\ current_day = None
    /\ current_dishes = <<>>
    /\ weekly_menu = <<>>
    /\ kv_day_of_week = None
    /\ kv_returned = <<>>
    /\ pcKv = "parse"

\* _fetch_page raises: the call raises 'Failed to fetch menu: ...'
KvFetchFails ==
    /\ pcKv = "parse"
    /\ soup = PageFailed
    /\ kv_returned' = FailedToFetch(soup)
    /\ pcKv' = "failed"
    /\ UNCHANGED <<soup, element_idx, current_day, current_dishes, weekly_menu,
                   kv_day_of_week, exceptKv>>

\* the loop of _parse_weekly_menu has a next child
InKvLoop == pcKv = "parse" /\ soup # PageFailed /\ element_idx <= Len(Children)

\* a <b> or <strong> element: the previous day is saved, and a day name
\* starts a new day
KvBold ==
    /\ InKvLoop
    /\ Children[element_idx].name \in {"b", "strong"}
    /\ weekly_menu' = Saved(weekly_menu, current_day, current_dishes)
    /\ LET day_text == Lower(Strip(Children[element_idx].text))
       IN  IF IsDayName(day_text)
           THEN current_day' = DayNameOf(day_text) /\ current_dishes' = <<>>
           ELSE UNCHANGED <<current_day, current_dishes>>
    /\ element_idx' = element_idx + 1
    /\ UNCHANGED <<soup, kv_day_of_week, kv_returned, pcKv, exceptKv>>

\* a <br>: continue
KvBr ==
    /\ InKvLoop
    /\ Children[element_idx].name = "br"
    /\ element_idx' = element_idx + 1
    /\ UNCHANGED <<soup, current_day, current_dishes, weekly_menu,
                   kv_day_of_week, kv_returned, pcKv, exceptKv>>

\* a text node: its stripped text joins the dishes of the current day
KvText ==
    /\ InKvLoop
    /\ Children[element_idx].name = None
    /\ LET text == Strip(Children[element_idx].text)
       IN  current_dishes' = IF text # <<>> /\ current_day # None
                             THEN Append(current_dishes, text)
                             ELSE current_dishes
    /\ element_idx' = element_idx + 1
    /\ UNCHANGED <<soup, current_day, weekly_menu, kv_day_of_week, kv_returned, pcKv, exceptKv>>

\* any other element: no branch of the loop body applies
KvOtherElement ==
    /\ InKvLoop
    /\ Children[element_idx].name \notin {"b", "strong", "br", None}
    /\ element_idx' = element_idx + 1
    /\ UNCHANGED <<soup, current_day, current_dishes, weekly_menu,
                   kv_day_of_week, kv_returned, pcKv, exceptKv>>

\* the end of _parse_weekly_menu: the last day is saved; without a menu div
\* the empty weekly menu is returned at once
KvParsed ==
    /\ pcKv = "parse"
    /\ soup # PageFailed
    /\ element_idx > Len(Children)
    /\ weekly_menu' = Saved(weekly_menu, current_day, current_dishes)
    /\ pcKv' = "parsed"
    /\ UNCHANGED <<soup, element_idx, current_day, current_dishes,
                   kv_day_of_week, kv_returned, exceptKv>>

\* get_weekly_menu raising when the parsed weekly menu is empty
KvGetWeeklyMenu_RaisesWhenEmpty ==
    /\ pcKv = "parsed"
    /\ kv_returned' = IF weekly_menu = <<>>
                      THEN Raised("Failed to fetch menu: no menu on the page")
                      ELSE Returned(weekly_menu)
    /\ pcKv' = "weekly"
    /\ UNCHANGED <<soup, element_idx, current_day, current_dishes, weekly_menu,
                   kv_day_of_week, exceptKv>>

\* get_weekly_menu returns the parsed weekly menu
KvGetWeeklyMenu ==
    /\ pcKv = "parsed"
    /\ kv_returned' = Returned(weekly_menu)
    /\ pcKv' = "weekly"
    /\ UNCHANGED <<soup, element_idx, current_day, current_dishes, weekly_menu,
                   kv_day_of_week, exceptKv>>

\* kv_get_menu_for_day returning an empty menu for a day without key
kv_get_menu_for_day_EmptyMenu(weekly_menu_, day_of_week) ==
    IF day_of_week >= Len(day_names) \/ day_names[day_of_week + 1] \notin DOMAIN weekly_menu_
    THEN Returned([vegetarian |-> <<>>, meat |-> <<>>])
    ELSE Returned(weekly_menu_[day_names[day_of_week + 1]])

kv_get_menu_for_day(weekly_menu_, day_of_week) ==
    IF day_of_week >= Len(day_names)
    THEN Returned([vegetarian |-> <<>>, meat |-> <<>>])
    ELSE LET day_name == day_names[day_of_week + 1]
         IN  IF day_name \notin DOMAIN weekly_menu_
             THEN Raised("No menu found for " \o day_name)
             ELSE Returned(weekly_menu_[day_name])

\* get_menu_for_day looks the weekday of the date up in the parsed menu
KvGetMenuForDay ==
    /\ pcKv = "parsed"
    /\ \E day_of_week \in Weekdays :
          /\ kv_day_of_week' = day_of_week
          /\ kv_returned' = kv_get_menu_for_day(weekly_menu, day_of_week)
    /\ pcKv' = "day"
    /\ UNCHANGED <<soup, element_idx, current_day, current_dishes, weekly_menu, exceptKv>>

(***************************************************************************)
(* The two scrapers, each from its fetched data on                         *)
(***************************************************************************)

SpecScrapeInit ==
    /\ IdleDish /\ IdleDishes /\ IdleMerge /\ IdleCli /\ IdleCalls /\ IdleParse /\ IdleSession
    /\ \/ InitIss /\ IdleKv
       \/ InitKv /\ IdleIss

SpecScrapeNext ==
    \/ ParseApiResponse
    \/ IssGetWeeklyMenu
    \/ IssGetMenuForDay
    \/ KvFetchFails
    \/ KvBold
    \/ KvBr
    \/ KvText
    \/ KvOtherElement
    \/ KvParsed
    \/ KvGetWeeklyMenu
    \/ KvGetMenuForDay

SpecScrape == SpecScrapeInit /\ [][SpecScrapeNext]_vars

(***************************************************************************)
(* Properties of the scrapers, checked under SpecScrape                    *)
(***************************************************************************)

\* a call has returned a value
HasReturned(outcome) == "returned" \in DOMAIN outcome

\* the day menu has the three category keys
HasThreeKeys(menu) == {"vegetarian", "fish", "meat"} \subseteq DOMAIN menu

\* C13: every day menu a scraper returns has the keys vegetarian, fish and
\* meat: the return value of get_menu_for_day, every value of the weekly menu
\* of get_weekly_menu, and what _parse_dishes returns for the dishes of a day,
\* the empty list included.
C13_ThreeKeys ==
    /\ (pcIss = "weekly" /\ HasReturned(iss_returned)) =>
          \A d \in DOMAIN iss_returned.returned : HasThreeKeys(iss_returned.returned[d])
    /\ (pcIss = "day" /\ HasReturned(iss_returned)) => HasThreeKeys(iss_returned.returned)
    /\ (pcKv = "weekly" /\ HasReturned(kv_returned)) =>
          \A d \in DOMAIN kv_returned.returned : HasThreeKeys(kv_returned.returned[d])
    /\ (pcKv = "day" /\ HasReturned(kv_returned)) => HasThreeKeys(kv_returned.returned)
    /\ pcKv = "parsed" => HasThreeKeys(_parse_dishes(current_dishes))

\* the menuSwedish list of the response, empty when there is none
IssMenuSwedish ==
    LET items == Get(api_data, "dataItems", <<>>)
    IN  IF items = <<>> THEN <<>>
        ELSE Get(Get(items[1], "data", <<>>), "menuSwedish", <<>>)

\* the i-th entry of menuSwedish, counted from 1, has a menu text that is not
\* blank
NonBlankEntry(i) ==
    /\ i \in 1..Len(IssMenuSwedish)
    /\ "menu" \in DOMAIN IssMenuSwedish[i]
    /\ \E k \in 1..Len(IssMenuSwedish[i].menu) : IssMenuSwedish[i].menu[k] \notin Whitespace

\* the weekdays whose entry has a menu text
DaysWithText == {day_names[i] : i \in {j \in 1..Len(day_names) : NonBlankEntry(j)}}

\* some category list of the day menu is not empty
HasDish(menu) == \E c \in DOMAIN menu : menu[c] # <<>>

\* C14 as stated: a weekly menu returned by either scraper holds a weekday key
\* only if that day's menu has a category list that is not empty.
C14_OnlyDaysWithDishes ==
    /\ (pcIss = "weekly" /\ HasReturned(iss_returned)) =>
          \A d \in DOMAIN iss_returned.returned : HasDish(iss_returned.returned[d])
    /\ (pcKv = "weekly" /\ HasReturned(kv_returned)) =>
          \A d \in DOMAIN kv_returned.returned : HasDish(kv_returned.returned[d])

\* C14 amended: the weekly menu of the Kvartersmenyn scraper holds a weekday
\* key only if that day's vegetarian or meat list is not empty; the weekly
\* menu of the ISS scraper holds exactly the weekdays whose menuSwedish entry
\* has a text that is not blank, whether or not a dish comes out of the text.
C14_DayPresence ==
    /\ (pcKv = "weekly" /\ HasReturned(kv_returned)) =>
          \A d \in DOMAIN kv_returned.returned :
              \/ kv_returned.returned[d].vegetarian # <<>>
              \/ kv_returned.returned[d].meat # <<>>
    /\ (pcIss = "weekly" /\ HasReturned(iss_returned)) =>
          DOMAIN iss_returned.returned = DaysWithText

\* C14 witness: the ISS scraper has returned a weekly menu with a day whose
\* text is a marker line alone; the day is present and its lists are empty
C14_Witness ==
    /\ pcIss = "weekly"
    /\ HasReturned(iss_returned)
    /\ "tisdag" \in DOMAIN iss_returned.returned
    /\ ~HasDish(iss_returned.returned["tisdag"])
    /\ Cardinality(DOMAIN iss_returned.returned) = 2

\* the child is a header that names no day and begins with 'Veckans'
VeckansHeaderAt(j) ==
    /\ Children[j].name \in {"b", "strong", "h2", "h3"}
    /\ StartsWith(Strip(Children[j].text), <<"V", "e", "c", "k", "a", "n", "s">>)

\* C15: once the loop over the children has passed a 'Veckans ...' header, no
\* text is added to the dishes of a day.
C15_StopsAtVeckansHeader ==
    [][(InKvLoop /\ \E j \in 1..(element_idx - 1) : VeckansHeaderAt(j))
          => Len(current_dishes') <= Len(current_dishes)]_vars

\* C16: a heading element whose text is a weekday name starts a new day: the
\* day becomes the current day and its dishes start empty.
C16_HeadingStartsDay ==
    [][(/\ InKvLoop
        /\ Children[element_idx].name \in {"h2", "h3"}
        /\ IsDayName(Lower(Strip(Children[element_idx].text))))
          => /\ current_day' = DayNameOf(Lower(Strip(Children[element_idx].text)))
             /\ current_dishes' = <<>>]_vars

\* C17: _parse_api_response raises 'No menu items found in API response' when
\* dataItems is missing or empty, 'No menuSwedish data found in API response'
\* when menuSwedish is missing or empty, and 'Could not parse any menu data
\* from API response' when none of the first seven entries has a text that is
\* not blank; otherwise it returns a weekly menu that is not empty, whose keys
\* are the weekdays of the first seven entries with such a text, each with the
\* menu parsed from its entry's text.  Entries after the seventh add nothing.
C17_ParseApiResponse ==
    pcIss = "parsed" =>
        IF Get(api_data, "dataItems", <<>>) = <<>>
        THEN iss_returned = Raised("No menu items found in API response")
        ELSE IF IssMenuSwedish = <<>>
        THEN iss_returned = Raised("No menuSwedish data found in API response")
        ELSE IF DaysWithText = {}
        THEN iss_returned = Raised("Could not parse any menu data from API response")
        ELSE /\ HasReturned(iss_returned)
             /\ DOMAIN iss_returned.returned = DaysWithText
             /\ DOMAIN iss_returned.returned # {}
             /\ \A i \in 1..Len(day_names) :
                   NonBlankEntry(i) =>
                       iss_returned.returned[day_names[i]] =
                           _parse_day_menu_from_text(Strip(IssMenuSwedish[i].menu))

\* C17 witness: eight entries, the first and the seventh blank, the others with
\* a text: the weekly menu has tisdag to lördag and no söndag
C17_Witness ==
    /\ pcIss = "parsed"
    /\ Len(IssMenuSwedish) = Len(day_names) + 1
    /\ NonBlankEntry(Len(day_names) + 1)
    /\ ~NonBlankEntry(Len(day_names))
    /\ ~NonBlankEntry(1)
    /\ HasReturned(iss_returned)
    /\ DOMAIN iss_returned.returned = {"tisdag", "onsdag", "torsdag", "fredag", "lördag"}
    /\ iss_returned.returned["fredag"].meat # <<>>

\* what may follow the weekday in the message: nothing, or the list of the
\* available days
AvailableDaysSuffixes ==
    {""} \cup {". Available days: " \o Join(SelectSeq(day_names, LAMBDA d : d \in days), ", ") :
                 days \in SUBSET {day_names[i] : i \in 1..Len(day_names)}}

\* the call raised 'No menu found for <day>'
RaisedNoMenuFor(outcome, day_name) ==
    /\ "raised" \in DOMAIN outcome
    /\ \E suffix \in AvailableDaysSuffixes :
          outcome.raised = "No menu found for " \o day_name \o suffix

\* C18: when the weekly menu has been parsed and the weekday asked for is not
\* one of its keys, get_menu_for_day of either scraper raises 'No menu found
\* for <day>' with the name of the weekday; when the weekday is a key it
\* returns a menu.
C18_NoMenuFound ==
    /\ pcKv = "day" =>
          IF day_names[kv_day_of_week + 1] \in DOMAIN weekly_menu
          THEN kv_returned = Returned(weekly_menu[day_names[kv_day_of_week + 1]])
          ELSE RaisedNoMenuFor(kv_returned, day_names[kv_day_of_week + 1])
    /\ (pcIss = "day" /\ DaysWithText # {}) =>
          IF day_names[iss_day_of_week + 1] \in DaysWithText
          THEN HasReturned(iss_returned)
          ELSE RaisedNoMenuFor(iss_returned, day_names[iss_day_of_week + 1])

\* C18 witness: the page has a menu for måndag only, tisdag is asked for, and
\* the call has raised
C18_Witness ==
    /\ pcKv = "day"
    /\ DOMAIN weekly_menu = {"måndag"}
    /\ kv_day_of_week = 1
    /\ kv_returned = Raised("No menu found for tisdag")

(***************************************************************************)
(* Further properties of classify_dishes, checked under Spec               *)
(***************************************************************************)

\* C21: no output list ever holds a marker line; a marker line that reaches
\* the classifier leaves the lists as they are and makes its category the
\* marker context, whatever the context was; and a dish that matches no
\* content rule is appended to the list of the marker context in force.
C21_MarkerLines ==
    /\ [](\A c \in Categories :
             \A n \in 1..Len(categorized[c]) : ~IsMarkerLine(categorized[c][n]))
    /\ [][(InLoop /\ MarkerAt(idx))
             => /\ categorized' = categorized
                /\ current_marker_category' = MarkerLineCategory(dishes[idx])]_vars
    /\ [][\A c \in Categories :
             (InLoop /\ current_marker_category = c /\ PlainDishAt(idx))
                 => categorized' = [categorized EXCEPT ![c] = Append(@, dishes[idx])]]_vars

\* C21 witness: two marker lines of different categories and then a dish that
\* matches no content rule, which is alone in the second marker's list
C21_Witness ==
    /\ pc = "done"
    /\ Len(dishes) = 3
    /\ MarkerAt(1)
    /\ MarkerAt(2)
    /\ MarkerLineCategory(dishes[1]) # MarkerLineCategory(dishes[2])
    /\ PlainDishAt(3)
    /\ categorized[MarkerLineCategory(dishes[2])] = <<dishes[3]>>
    /\ TotalEmitted = 1

(***************************************************************************)
(* classify_dishes on lists of noise, labels and labelled dishes           *)
(***************************************************************************)

\* the most candidates of such a list
MaxNoiseLen == 3

\* candidates: empty, too short, a bare label, short texts with a label in
\* them, a long text with a label, a marker line, a dish
NoiseTexts ==
    {
      <<>>,
      <<" ","a","b"," ">>,
      <<"E","x","t","r","a">>,
      <<"E","x","t","r","a"," ","o","s","t">>,
      <<"T","i","l","l","b","e","h","ö","r",":"," ","r","i","s">>,
      <<" ","D","e","s","s","e","r","t",":"," ","g","l","a","s","s"," ","o","c","h"," ","b","ä","r"," ">>,
      <<"V","e","g","e","t","a","r","i","s","k","t",":">>,
      <<"D","a","g","e","n","s"," ","r","ä","t","t">>
    }

NoiseLists == UNION {[1..n -> NoiseTexts] : n \in 0..MaxNoiseLen}

InitNoise ==
    /\ dishes \in NoiseLists
    /\ idx = 1
    /\ categorized = [vegetarian |-> <<>>, meat |-> <<>>, fish |-> <<>>]
    /\ current_marker_category = None
    /\ pc = "loop"

SpecNoiseInit == InitNoise /\ IdleDish /\ IdleMerge /\ IdleScrapers /\ IdleCalls /\ IdleParse /\ IdleSession

SpecNoise == SpecNoiseInit /\ [][Next]_vars

\* the lowercased, trimmed text is one of the section labels
IsLabel(text) == \E n \in 1..Len(SKIP_LABELS) : Lowered(text) = SKIP_LABELS[n]

\* the text holds one of the section labels
HoldsLabel(text) == \E n \in 1..Len(SKIP_LABELS) : Contains(SKIP_LABELS[n], Lowered(text))

\* the step of the loop has taken the candidate as a marker line or as a dish
TakenUp ==
    \/ /\ IsMarkerLine(dishes[idx])
       /\ current_marker_category' = MarkerLineCategory(dishes[idx])
       /\ categorized' = categorized
    \/ /\ ~IsMarkerLine(dishes[idx])
       /\ \E c \in Categories : categorized' = [categorized EXCEPT ![c] = Append(@, dishes[idx])]

\* the step of the loop has skipped the candidate
Skipped ==
    /\ categorized' = categorized
    /\ current_marker_category' = current_marker_category

\* C22 as stated: the candidates skipped are exactly the empty ones, those of
\* a trimmed length below 3 and the bare section labels; a candidate with
\* text attached to a label is taken up; a skipped candidate leaves the marker
\* context unchanged.
C22_ExactlyBareLabels ==
    [][InLoop =>
          IF Len(Strip(dishes[idx])) < 3 \/ IsLabel(dishes[idx])
          THEN Skipped
          ELSE TakenUp]_vars

\* C22 amended: the candidates skipped are exactly the empty ones, those of a
\* trimmed length below 3, and those whose lowercased, trimmed text holds a
\* section label and is shorter than 15 characters, a short text with a label
\* in it included; a text with a label and 15 characters or more is taken up;
\* a skipped candidate leaves the lists and the marker context unchanged.
C22_ShortTextsWithLabel ==
    [][InLoop =>
          IF \/ Len(Strip(dishes[idx])) < 3
             \/ HoldsLabel(dishes[idx]) /\ Len(Lowered(dishes[idx])) < 15
          THEN Skipped
          ELSE TakenUp]_vars

\* C22 witness: after a marker line a short text with a label in it has been
\* skipped and the dish after it is in the marker's list; a long text with a
\* label would have been taken up
C22_Witness ==
    /\ pc = "done"
    /\ Len(dishes) = 3
    /\ MarkerAt(1)
    /\ HoldsLabel(dishes[2]) /\ ~IsLabel(dishes[2]) /\ Len(Lowered(dishes[2])) < 15
    /\ PlainDishAt(3)
    /\ categorized[MarkerLineCategory(dishes[1])] = <<dishes[3]>>
    /\ TotalEmitted = 1

\* the step of the loop has appended a string to one of the lists
EmitsOne == InLoop /\ TotalEmitted' = TotalEmitted + 1

\* C23 as stated: every string appended to an output list is the candidate's
\* text with its leading and trailing whitespace removed.
C23_AppendsTrimmed ==
    [][EmitsOne =>
          \E c \in Categories :
              categorized' = [categorized EXCEPT ![c] = Append(@, Strip(dishes[idx]))]]_vars

\* C23 amended: every string appended to an output list is the candidate's
\* text exactly as it was given, leading and trailing whitespace included.
C23_AppendsAsGiven ==
    [][EmitsOne =>
          \E c \in Categories :
              categorized' = [categorized EXCEPT ![c] = Append(@, dishes[idx])]]_vars

\* C23 witness: a list holds a dish that still has its surrounding whitespace
C23_Witness ==
    /\ pc = "done"
    /\ \E c \in Categories : \E n \in 1..Len(categorized[c]) :
          /\ categorized[c][n] # Strip(categorized[c][n])
          /\ \E i \in 1..Len(dishes) : dishes[i] = categorized[c][n]

\* the candidates seen so far: all of them once the call has returned
Seen == 1..(IF pc = "done" THEN Len(dishes) ELSE idx - 1)

\* the ways of giving each candidate seen one list or none
Placings == [Seen -> Categories \cup {None}]

\* list c holds exactly the candidates placed in it, in the order of the input
HoldsPlaced(place, c) ==
    LET P == {i \in Seen : place[i] = c}
    IN  /\ Len(categorized[c]) = Cardinality(P)
        /\ \A i \in P : categorized[c][Cardinality({j \in P : j <= i})] = dishes[i]

\* C24: each output list is a subsequence of the input in the order of the
\* input, a candidate given twice appearing twice, and no occurrence of a
\* candidate is in more than one list: the occurrences can be given one list
\* or none each so that every list holds exactly its own, in their order.
C24_Subsequences ==
    \E place \in Placings : \A c \in Categories : HoldsPlaced(place, c)

\* C24 witness: the same dish given twice is twice in one list, in between
\* them a dish that went to another list
C24_Witness ==
    /\ pc = "done"
    /\ Len(dishes) = 3
    /\ dishes[1] = dishes[3]
    /\ \E c \in Categories :
          /\ categorized[c] = <<dishes[1], dishes[3]>>
          /\ \E d \in Categories \ {c} : categorized[d] = <<dishes[2]>>

(***************************************************************************)
(* classify_dishes called again and again, as _parse_api_response and      *)
(* _parse_day_menu_from_text call it once per day                          *)
(***************************************************************************)

\* the most candidates of one call
MaxCallLen == 2

\* candidates: an empty one, a bare label, two marker lines, a dish that
\* matches no rule, a dish with a keyword
CallTexts ==
    {
      <<>>,
      <<"E","x","t","r","a">>,
      <<"V","e","g","e","t","a","r","i","s","k","t",":">>,
      <<"F","i","s","k",":">>,
      <<"D","a","g","e","n","s"," ","r","ä","t","t">>,
      <<"H","a","l","l","o","u","m","i">>
    }

CallLists == UNION {[1..n -> CallTexts] : n \in 0..MaxCallLen}

\* the locals of a call: categorized = {...}, current_marker_category = None
InitCall ==
    /\ dishes \in CallLists
    /\ idx = 1
    /\ categorized = [vegetarian |-> <<>>, meat |-> <<>>, fish |-> <<>>]
    /\ current_marker_category = None
    /\ pc = "loop"

\* the next call sharing the marker context of the call before it
CallAgain_SharedMarker ==
    /\ pc = "done"
    /\ dishes' \in CallLists
    /\ idx' = 1
    /\ categorized' = [vegetarian |-> <<>>, meat |-> <<>>, fish |-> <<>>]
    /\ current_marker_category' = current_marker_category
    /\ pc' = "loop"
    /\ marker_of_earlier_call' = current_marker_category
    /\ UNCHANGED exceptCalls

\* the caller calls classify_dishes again: the locals of the new call are new
CallAgain ==
    /\ pc = "done"
    /\ dishes' \in CallLists
    /\ idx' = 1
    /\ categorized' = [vegetarian |-> <<>>, meat |-> <<>>, fish |-> <<>>]
    /\ current_marker_category' = None
    /\ pc' = "loop"
    /\ marker_of_earlier_call' = current_marker_category
    /\ UNCHANGED exceptCalls

SpecCallsInit == InitCall /\ IdleCalls /\ IdleDish /\ IdleMerge /\ IdleScrapers /\ IdleParse /\ IdleSession

SpecCallsNext == SkipShort \/ SkipLabel \/ SetMarker \/ AppendDish \/ Return \/ CallAgain

SpecCalls == SpecCallsInit /\ [][SpecCallsNext]_vars

\* C25: the marker context of a call of classify_dishes has no influence on
\* another call: a call starts with no marker context, and whatever was
\* classified before it, it returns what a first call returns for its list.
C25_CallsIndependent ==
    /\ (pc = "loop" /\ idx = 1) => current_marker_category = None
    /\ pc = "done" => categorized = classify_dishes(dishes)

\* C25 witness: the call before ended in a vegetarian marker context, and this
\* call has put a dish that matches no rule in the meat list
C25_Witness ==
    /\ pc = "done"
    /\ marker_of_earlier_call = "vegetarian"
    /\ Len(dishes) >= 1
    /\ PlainDishAt(1)
    /\ categorized.meat = <<dishes[1]>>
    /\ categorized.vegetarian = <<>>

(***************************************************************************)
(* KvartersmenynsMenuScraper._parse_dishes, step by step                   *)
(***************************************************************************)

\* the most lines of a day
MaxLines == 3

\* lines of a day: two with a climate rating, one of them with a code, a
\* continuation, a marker line, a price line, a rated metadata line, a line
\* too short to count
LineTexts ==
    {
      <<"A"," ","B","i","f","f"," ","m","e","d"," ","l","ö","k">>,
      <<"B","."," ","L","a","x"," ","m","e","d"," ","r","i","s"," ","_","f","_">>,
      <<" ","s","e","r","v","e","r","a","s"," "," ","m","e","d"," ","r","i","s"," ">>,
      <<"V","e","g","e","t","a","r","i","s","k","t",":">>,
      <<"P","R","I","S",":"," ","1","2","5"," ","k","r">>,
      <<"B"," ","K","l","i","m","a","t","o"," ","i","n","f","o">>,
      <<"x">>
    }

LineLists == UNION {[1..n -> LineTexts] : n \in 0..MaxLines}

InitParse ==
    /\ kv_lines \in LineLists
    /\ kv_combined = <<>>
    /\ kv_cleaned = <<>>
    /\ kv_parsed = <<>>
    /\ pcParse = "call"

\* if not dishes: return {'vegetarian': [], 'meat': []}
ParseNothing ==
    /\ pcParse = "call"
    /\ kv_lines = <<>>
    /\ kv_parsed' = [vegetarian |-> <<>>, meat |-> <<>>]
    /\ pcParse' = "done"
    /\ UNCHANGED <<kv_lines, kv_combined, kv_cleaned, exceptParse>>

\* the first loop: combined_dishes
CombineLines ==
    /\ pcParse = "call"
    /\ kv_lines # <<>>
    /\ kv_combined' = Combined(kv_lines, 1, <<>>, <<>>)
    /\ pcParse' = "combined"
    /\ UNCHANGED <<kv_lines, kv_cleaned, kv_parsed, exceptParse>>

\* the second loop: cleaned_dishes
CleanCombined ==
    /\ pcParse = "combined"
    /\ kv_cleaned' = CleanedDishes(kv_combined)
    /\ pcParse' = "cleaned"
    /\ UNCHANGED <<kv_lines, kv_combined, kv_parsed, exceptParse>>

\* the classifier and the merge of its lists
ClassifyCleaned ==
    /\ pcParse = "cleaned"
    /\ kv_parsed' = merge_categories_for_display(classify_dishes(kv_cleaned))
    /\ pcParse' = "done"
    /\ UNCHANGED <<kv_lines, kv_combined, kv_cleaned, exceptParse>>

SpecParseInit ==
    /\ InitParse
    /\ IdleDish /\ IdleDishes /\ IdleMerge /\ IdleScrapers /\ IdleCalls /\ IdleSession

SpecParseNext == ParseNothing \/ CombineLines \/ CleanCombined \/ ClassifyCleaned

SpecParse == SpecParseInit /\ [][SpecParseNext]_vars

(* Properties of _parse_dishes, checked under SpecParse *)

\* the lines the first loop looks at: trimmed, those of one character left out
Looked == SelectSeq([n \in 1..Len(kv_lines) |-> Strip(kv_lines[n])], LAMBDA l : Len(l) >= 2)

\* the positions of the lines with a climate rating
Rated == {p \in 1..Len(Looked) : StartsNewDish(Looked[p])}

\* the position of the first line with a climate rating
FirstRated ==
    IF Rated = {} THEN Len(Looked) + 1 ELSE CHOOSE p \in Rated : \A q \in Rated : p <= q

\* the rated line p and the lines after it up to the next rated line
GroupOf(p) ==
    LET later == {q \in Rated : q > p}
        next == IF later = {} THEN Len(Looked) + 1
                ELSE CHOOSE q \in later : \A r \in later : q <= r
    IN  SubSeq(Looked, p, next - 1)

\* the place in combined_dishes of the dish that the rated line p starts
EntryOf(p) == (FirstRated - 1) + Cardinality({q \in Rated : q <= p})

\* where line j of the group starts in the joined text, counting from 0
RECURSIVE Offset(_, _)
Offset(group, j) ==
    IF j = 1 THEN 0 ELSE Offset(group, j - 1) + Len(group[j - 1]) + 1

\* text is the lines of the group in their order with one space between them
IsJoinOf(text, group) ==
    /\ Len(text) = Offset(group, Len(group) + 1) - 1
    /\ \A j \in 1..Len(group) :
          SubSeq(text, Offset(group, j) + 1, Offset(group, j) + Len(group[j])) = group[j]
    /\ \A j \in 2..Len(group) : text[Offset(group, j)] = " "

\* the combined dish is handed to the classifier: it holds no metadata phrase
\* and is long enough when cleaned
Reaches(d) == ~AnyIn(MetadataPhrases, d) /\ Len(Cleaned(d)) >= 5

\* the place in cleaned_dishes of the combined dish n
CleanedIndex(n) == Cardinality({m \in 1..n : Reaches(kv_combined[m])})

\* the text after the climate rating, codes removed and whitespace made single
AfterRating(d) ==
    Strip(SingleSpaces(WithoutCodes(SubSeq(d, RatingPrefixLen(d) + 1, Len(d)))))

C27_DishLineReaches ==
    (pcParse = "done" /\ kv_lines # <<>>) =>
        \A p \in Rated :
            Reaches(Looked[p]) =>
                \E n \in 1..Len(kv_cleaned) : StartsWith(kv_cleaned[n], AfterRating(Looked[p]))

\* C30: once a line with a climate rating has occurred, every later line
\* without one, a marker line included, is part of the dish of the latest
\* rated line and no dish of its own; the lines before the first rated line
\* are dishes of their own.
C30_LaterLinesAppended ==
    (pcParse = "done" /\ kv_lines # <<>>) =>
        /\ Len(kv_combined) = (FirstRated - 1) + Cardinality(Rated)
        /\ \A n \in 1..(FirstRated - 1) : kv_combined[n] = Looked[n]
        /\ \A q \in (FirstRated + 1)..Len(Looked) :
              q \notin Rated =>
                  LET p == CHOOSE r \in Rated : r < q /\ \A t \in Rated : t < q => t <= r
                  IN  /\ Contains(Looked[q], kv_combined[EntryOf(p)])
                      /\ \A t \in 1..(q - p + 1) : GroupOf(p)[t] = Looked[p + t - 1]

\* C30 witness: a marker line before the first rated line is a candidate of
\* its own, one after it is the end of the rated dish
C30_Witness ==
    /\ pcParse = "done"
    /\ Len(Looked) = 3
    /\ Rated = {2}
    /\ IsMarkerLine(Looked[1])
    /\ IsMarkerLine(Looked[3])
    /\ Len(kv_combined) = 2
    /\ kv_cleaned = <<Looked[1], AfterRating(Looked[2]) \o <<" ">> \o Looked[3]>>

(* The Kvartersmenyn page without the structure looked for, under SpecScrape *)

\* the page was fetched and has no menu div
NoMenuDiv == soup # PageFailed /\ "meny" \notin DOMAIN soup

\* the page has a menu div, and no <b> or <strong> in it holds a day name
NoDayHeader ==
    /\ soup # PageFailed
    /\ "meny" \in DOMAIN soup
    /\ \A n \in 1..Len(Children) :
          ~(/\ Children[n].name \in {"b", "strong"}
            /\ IsDayName(Lower(Strip(Children[n].text))))

\* C28 as stated: for a page without menu div, or without a day header in
\* it, get_weekly_menu raises.
C28_FailureReported ==
    (pcKv = "weekly" /\ (NoMenuDiv \/ NoDayHeader)) => "raised" \in DOMAIN kv_returned

\* C28 amended: for a page without menu div, or without a day header in it,
\* get_weekly_menu returns the empty weekly menu and raises nothing; a
\* failure is reported by get_menu_for_day, as 'No menu found for <day>', and
\* by both when the page cannot be fetched, as 'Failed to fetch menu: ...'.
C28_EmptyWeeklyMenu ==
    /\ (pcKv = "weekly" /\ (NoMenuDiv \/ NoDayHeader)) => kv_returned = Returned(<<>>)
    /\ (pcKv = "day" /\ (NoMenuDiv \/ NoDayHeader)) =>
          kv_returned = Raised("No menu found for " \o day_names[kv_day_of_week + 1])
    /\ pcKv = "failed" =>
          /\ "raised" \in DOMAIN kv_returned
          /\ kv_returned.raised = "Failed to fetch menu: " \o soup.raised

\* C28 witness: get_weekly_menu has returned the empty weekly menu for a
\* page whose menu div holds dish text and no day header
C28_Witness ==
    /\ pcKv = "weekly"
    /\ NoDayHeader
    /\ \E n \in 1..Len(Children) :
          Children[n].name = None /\ Len(Strip(Children[n].text)) >= MinCleanedLength
    /\ kv_returned = Returned(<<>>)

(***************************************************************************)
(* ISSMenuScraper._establish_session and _fetch_menu_from_api              *)
(***************************************************************************)

\* the most requests after which another call is made
MaxRequests == 7

\* a request whose raise_for_status() raises, or that raises itself
RequestFailed == [failed |-> "500 Server Error"]

\* the home page
HomePages == {[text |-> "home"]}

\* the restaurant page: without the wix-viewer-model script, with a script
\* that is no JSON, and with a script whose prefixToRouterFetchData has the
\* given entries, each with the Authorization of its optionsData headers,
\* None for an entry without one
RestaurantPages ==
    {[script |-> "missing", entries |-> <<>>],
     [script |-> "not json", entries |-> <<>>],
     [script |-> "json", entries |-> <<>>],
     [script |-> "json", entries |-> <<[Authorization |-> None]>>],
     [script |-> "json",
      entries |-> <<[Authorization |-> None], [Authorization |-> "token1"],
                    [Authorization |-> "token2"]>>],
     [script |-> "json", entries |-> <<[Authorization |-> "token2"]>>]}

\* the JSON of the API response
ApiData == {[dataItems |-> <<>>]}

\* the Authorization header of the first entry that has one, None when no
\* entry has one
RECURSIVE FirstAuthorization(_)
FirstAuthorization(entries) ==
    IF entries = <<>> THEN None
    ELSE IF Head(entries).Authorization # None
    THEN Head(entries).Authorization
    ELSE FirstAuthorization(Tail(entries))

\* self._auth_token after the restaurant page has been read
TokenAfter(page, token) ==
    IF page.script # "json" THEN token
    ELSE IF FirstAuthorization(page.entries) # None
    THEN FirstAuthorization(page.entries)
    ELSE token

\* one request and what came of it
Request(url, response) == [url |-> url, ok |-> response # RequestFailed]

\* the API request with the Authorization header it carries
ApiRequest(token, response) ==
    [url |-> "api", ok |-> response # RequestFailed, Authorization |-> token]

\* the session state and the requests after _establish_session, given the
\* responses to the two requests
Established(home, page) ==
    IF _session_established
    THEN [established |-> TRUE, token |-> _auth_token, sent |-> requests_sent]
    ELSE [established |-> page # RequestFailed,
          token |-> IF page # RequestFailed THEN TokenAfter(page, _auth_token)
                    ELSE _auth_token,
          sent |-> requests_sent \o <<Request("home", home), Request("restaurant", page)>>]

InitSession ==
    /\ _session_established = FALSE
    /\ _auth_token = None
    /\ requests_sent = <<>>
    /\ session_returned = <<>>
    /\ pcSession = "constructed"

\* _establish_session visiting the pages again when the session is established
EstablishSession_VisitsAgain ==
    /\ pcSession # "idle"
    /\ Len(requests_sent) < MaxRequests
    /\ \E home \in HomePages \cup {RequestFailed}, page \in RestaurantPages \cup {RequestFailed} :
          /\ _session_established' = (_session_established \/ page # RequestFailed)
          /\ _auth_token' = IF page # RequestFailed THEN TokenAfter(page, _auth_token)
                            ELSE _auth_token
          /\ requests_sent' =
                 requests_sent \o <<Request("home", home), Request("restaurant", page)>>
    /\ session_returned' = Returned(None)
    /\ pcSession' = "_establish_session"
    /\ UNCHANGED exceptSession

\* a call of _establish_session
EstablishSession ==
    /\ pcSession # "idle"
    /\ Len(requests_sent) < MaxRequests
    /\ \E home \in HomePages \cup {RequestFailed}, page \in RestaurantPages \cup {RequestFailed} :
          LET after == Established(home, page)
          IN  /\ _session_established' = after.established
              /\ _auth_token' = after.token
              /\ requests_sent' = after.sent
    /\ session_returned' = Returned(None)
    /\ pcSession' = "_establish_session"
    /\ UNCHANGED exceptSession

\* a call of _fetch_menu_from_api: the session, then the API request
FetchMenuFromApi ==
    /\ pcSession # "idle"
    /\ Len(requests_sent) < MaxRequests
    /\ \E home \in HomePages \cup {RequestFailed}, page \in RestaurantPages \cup {RequestFailed},
          response \in ApiData \cup {RequestFailed} :
          LET after == Established(home, page)
          IN  /\ _session_established' = after.established
              /\ _auth_token' = after.token
              /\ requests_sent' = Append(after.sent, ApiRequest(after.token, response))
              /\ session_returned' =
                     IF response = RequestFailed
                     THEN Raised("Failed to fetch menu from API: " \o response.failed)
                     ELSE Returned(response)
    /\ pcSession' = "_fetch_menu_from_api"
    /\ UNCHANGED exceptSession

SpecSessionInit ==
    /\ InitSession
    /\ IdleDish /\ IdleDishes /\ IdleMerge /\ IdleScrapers /\ IdleCalls /\ IdleParse

SpecSessionNext == EstablishSession \/ FetchMenuFromApi

SpecSession == SpecSessionInit /\ [][SpecSessionNext]_vars

\* the requests for the restaurant page that succeeded
RestaurantPageRead ==
    \E n \in 1..Len(requests_sent) :
        requests_sent[n].url = "restaurant" /\ requests_sent[n].ok

\* C29: _establish_session raises nothing; _session_established is True
\* exactly when a request for the restaurant page has succeeded, whatever came
\* of the home page and of the search for a token; once it is True a call
\* sends no request for a page and leaves _auth_token as it is; and while it
\* is False _fetch_menu_from_api sends the API request all the same.
C29_SessionEstablished ==
    /\ [](/\ pcSession = "_establish_session" => session_returned = Returned(None)
          /\ _session_established <=> RestaurantPageRead)
    /\ [][_session_established =>
             /\ _auth_token' = _auth_token
             /\ _session_established'
             /\ \/ requests_sent' = requests_sent
                \/ /\ pcSession' = "_fetch_menu_from_api"
                   /\ Len(requests_sent') = Len(requests_sent) + 1
                   /\ SubSeq(requests_sent', 1, Len(requests_sent)) = requests_sent
                   /\ requests_sent'[Len(requests_sent')].url = "api"]_vars
    /\ [][(~_session_established /\ pcSession' = "_fetch_menu_from_api"
              /\ requests_sent' # requests_sent) =>
             /\ Len(requests_sent') = Len(requests_sent) + 3
             /\ requests_sent'[Len(requests_sent')].url = "api"
             /\ requests_sent'[Len(requests_sent')].Authorization = _auth_token']_vars

\* C29 witness: the home page failed, the restaurant page was read and gave a
\* token, a later call of _establish_session sent nothing, and before all
\* that an API request went out with no session established
C29_Witness ==
    /\ pcSession = "_establish_session"
    /\ _session_established
    /\ _auth_token = "token1"
    /\ Len(requests_sent) = 6
    /\ requests_sent[3].url = "api"
    /\ ~requests_sent[2].ok
    /\ ~requests_sent[4].ok
    /\ requests_sent[5].ok
    /\ requests_sent[6].url = "api"

====
